---- MODULE Spec2Model ----
(***************************************************************************)
(* Session Manager, terminal-multiplexer adapter and Monitor of the        *)
(* orchestra desktop backend (src-tauri/src/sessions).                     *)
(*                                                                         *)
(* Spec     the running system: create/kill commands, the Monitor loop     *)
(*          (one step per await point) and the environment (agent process, *)
(*          pane output, sentinel file, tmux server).                      *)
(* SpecApi  the SessionManager's public operations called directly, in any *)
(*          order and with any arguments.                                  *)
(***************************************************************************)
EXTENDS Integers, Sequences, FiniteSets, TLC

VARIABLES
    sessions,   \* SessionManager.sessions: HashMap<String, Session>
    nextId,     \* number of session ids generated so far (uuid freshness)
    tmux,       \* ids of the sessions the tmux server currently holds
    exitFile,   \* /tmp/orchestra-sessions/<id>.exit: "absent" or its content
    agentPhase, \* the wrapped agent command of each tmux session
    pane,       \* the pane content of each tmux session
    mon,        \* the Monitor task: position in the loop and its locals
    ticks,      \* number of poll_interval ticks so far
    create,     \* the create_interactive_session command in flight / last returned
    kill,       \* the kill_interactive_session command in flight / last returned
    emitted,    \* per session id, the events emitted to the window, in order
    polls,      \* history: per session id, the output of the Monitor's last
                \* staleness poll and the number of polls in a row that read it
    call,       \* SpecApi: the last SessionManager operation called directly
    exec,       \* SpecExec: one call of executors::execute, its child process
                \* and its result
    procs,      \* SpecStop: the active-process table, the RunningProcess of
                \* one execution and the tasks that use it
    lock        \* SpecLock: the holder of the mutex of SessionManager.sessions
                \* and the position of each task that calls the manager

vars == <<sessions, nextId, tmux, exitFile, agentPhase, pane, mon, ticks,
          create, kill, emitted, polls, call, exec, procs, lock>>

----------------------------------------------------------------------------
(* Bounds of the model *)

\* number of Monitor ticks
MaxTicks == 3
\* cap of stale_poll_count in SpecApi (u32 in the source)
MaxStale == 2

(* Program constants *)

STALE_THRESHOLD == 2

\* The session ids ("orchestra-<uuid>") that can be generated: one session
\* under Spec, with the Monitor, the commands and the environment all
\* interleaved; two under SpecApi.
SessionIds == {1}
ApiIds == {1, 2}

----------------------------------------------------------------------------
(* Option<T>: None is <<>>, Some(v) is <<v>> *)

None == <<>>
Some(v) == <<v>>
IsSome(o) == o # <<>>
Unwrap(o) == o[1]

----------------------------------------------------------------------------
(* SessionStatus and Session *)

SessionStatus == {"Running", "AwaitingInput", "Completed", "Failed"}

\* The record create_session builds (manager.rs:78-90).
NewSessionBad(id, agent) ==
    [id |-> id, agent |-> agent, status |-> "Running", exit_code |-> None,
     last_output_hash |-> None, stale_poll_count |-> 1,
     detected_question |-> None]

NewSession(id, agent) ==
    [id |-> id, agent |-> agent, status |-> "Running", exit_code |-> None,
     last_output_hash |-> None, stale_poll_count |-> 0,
     detected_question |-> None]

\* HashMap::insert
insert(tbl, id, rec) == [x \in DOMAIN tbl \cup {id} |-> IF x = id THEN rec ELSE tbl[x]]

\* SessionManager::remove_session / HashMap::remove
remove_session(tbl, id) == [x \in DOMAIN tbl \ {id} |-> tbl[x]]

\* Mutant: the status is left as it was, only the exit code is recorded.
mark_completed_keeps_status(tbl, id, exit_code) ==
    IF id \in DOMAIN tbl
    THEN [tbl EXCEPT ![id].exit_code = Some(exit_code)]
    ELSE tbl

\* Mutant: every exit code counts as a success.
mark_completed_always_completed(tbl, id, exit_code) ==
    IF id \in DOMAIN tbl
    THEN [tbl EXCEPT ![id].status = "Completed", ![id].exit_code = Some(exit_code)]
    ELSE tbl

\* SessionManager::mark_completed
mark_completed(tbl, id, exit_code) ==
    IF id \in DOMAIN tbl
    THEN [tbl EXCEPT ![id].status = IF exit_code = 0 THEN "Completed" ELSE "Failed",
                     ![id].exit_code = Some(exit_code)]
    ELSE tbl

\* Mutant: the status guard is missing, the question is always overwritten.
mark_awaiting_input_unguarded(tbl, id, question) ==
    IF id \in DOMAIN tbl
    THEN [tbl EXCEPT ![id].status = "AwaitingInput", ![id].detected_question = question]
    ELSE tbl

\* SessionManager::mark_awaiting_input
mark_awaiting_input(tbl, id, question) ==
    IF id \in DOMAIN tbl /\ tbl[id].status # "AwaitingInput"
    THEN [tbl EXCEPT ![id].status = "AwaitingInput", ![id].detected_question = question]
    ELSE tbl

\* Mutant: the counter is reset on a stale poll too.
update_staleness_resets(tbl, id, output_hash) ==
    IF id \in DOMAIN tbl
    THEN LET s == tbl[id]
             is_stale == s.last_output_hash = Some(output_hash)
             cleared == ~is_stale /\ s.status = "AwaitingInput"
             s2 == [s EXCEPT !.stale_poll_count = 0,
                             !.last_output_hash = Some(output_hash),
                             !.status = IF cleared THEN "Running" ELSE @,
                             !.detected_question = IF cleared THEN None ELSE @]
         IN [sessions |-> [tbl EXCEPT ![id] = s2],
             ret |-> Some([stale_count |-> s2.stale_poll_count, is_stale |-> is_stale,
                           status |-> s2.status, cleared_awaiting_input |-> cleared])]
    ELSE [sessions |-> tbl, ret |-> None]

\* Mutant: a changed output does not put an AwaitingInput session back to Running.
update_staleness_no_clear(tbl, id, output_hash) ==
    IF id \in DOMAIN tbl
    THEN LET s == tbl[id]
             is_stale == s.last_output_hash = Some(output_hash)
             s2 == IF is_stale
                   THEN [s EXCEPT !.stale_poll_count = @ + 1]
                   ELSE [s EXCEPT !.stale_poll_count = 0,
                                  !.last_output_hash = Some(output_hash)]
         IN [sessions |-> [tbl EXCEPT ![id] = s2],
             ret |-> Some([stale_count |-> s2.stale_poll_count, is_stale |-> is_stale,
                           status |-> s2.status, cleared_awaiting_input |-> FALSE])]
    ELSE [sessions |-> tbl, ret |-> None]

\* SessionManager::update_staleness: the table after the call and the value returned.
update_staleness(tbl, id, output_hash) ==
    IF id \in DOMAIN tbl
    THEN LET s == tbl[id]
             is_stale == s.last_output_hash = Some(output_hash)
             cleared == ~is_stale /\ s.status = "AwaitingInput"
             s2 == IF is_stale
                   THEN [s EXCEPT !.stale_poll_count = @ + 1]
                   ELSE [s EXCEPT !.stale_poll_count = 0,
                                  !.last_output_hash = Some(output_hash),
                                  !.status = IF cleared THEN "Running" ELSE @,
                                  !.detected_question = IF cleared THEN None ELSE @]
         IN [sessions |-> [tbl EXCEPT ![id] = s2],
             ret |-> Some([stale_count |-> s2.stale_poll_count, is_stale |-> is_stale,
                           status |-> s2.status, cleared_awaiting_input |-> cleared])]
    ELSE [sessions |-> tbl, ret |-> None]

----------------------------------------------------------------------------
(* Command Builder: validation of agent, model and extraArgs.              *)
(* A string is represented by what the validation reads of it: its length  *)
(* and whether its characters are all allowed / contain NUL.               *)

MODEL_MAX_LEN == 128
EXTRA_ARGS_MAX == 64
EXTRA_ARG_MAX_LEN == 1024

Str(len, ok) == [len |-> len, charset_ok |-> ok]
Arg(len, nul) == [len |-> len, has_nul |-> nul]

\* Mutant: an unknown agent is passed through as a claude invocation.
parse_agent_pass_through(agent) ==
    CASE agent = "claude" -> "Claude"
      [] agent = "codex" -> "Codex"
      [] agent = "gemini" -> "Gemini"
      [] OTHER -> "Claude"

\* parse_agent: the AgentKind, or "Err"
parse_agent(agent) ==
    CASE agent = "claude" -> "Claude"
      [] agent = "codex" -> "Codex"
      [] agent = "gemini" -> "Gemini"
      [] OTHER -> "Err"

\* Mutant: a model of exactly MODEL_MAX_LEN bytes is rejected as too long.
validate_model_rejects_at_bound(m) ==
    IF m.len = 0 THEN FALSE
    ELSE IF m.len >= MODEL_MAX_LEN THEN FALSE
    ELSE IF ~m.charset_ok THEN FALSE
    ELSE TRUE

\* validate_model: TRUE for Ok(())
validate_model(m) ==
    IF m.len = 0 THEN FALSE
    ELSE IF m.len > MODEL_MAX_LEN THEN FALSE
    ELSE IF ~m.charset_ok THEN FALSE
    ELSE TRUE

\* The validation part of build_agent_command: TRUE when a command is produced.
build_agent_command(model, extra_args) ==
    LET model_ok == IF IsSome(model) THEN validate_model(Unwrap(model)) ELSE TRUE
        args == IF IsSome(extra_args) THEN Unwrap(extra_args) ELSE <<>>
    IN IF ~model_ok THEN FALSE
       ELSE IF Len(args) > EXTRA_ARGS_MAX THEN FALSE
       ELSE \A i \in 1..Len(args) :
              /\ args[i].len # 0
              /\ ~(args[i].len > EXTRA_ARG_MAX_LEN)
              /\ ~args[i].has_nul

\* The inputs of create_interactive_session the model draws from: two that
\* pass validation, and one failing each of the agent, model and extraArgs
\* validations.
CreateInputs ==
    { [agent |-> "claude", model |-> None, extra_args |-> None],
      [agent |-> "codex", model |-> Some(Str(6, TRUE)),
       extra_args |-> Some(<<Arg(6, FALSE)>>)],
      [agent |-> "nonsense", model |-> None, extra_args |-> None],
      [agent |-> "claude", model |-> Some(Str(6, FALSE)), extra_args |-> None],
      [agent |-> "gemini", model |-> None, extra_args |-> Some(<<Arg(6, TRUE)>>)] }

----------------------------------------------------------------------------
(* Pane output, its hash and the input-detection heuristic.                *)
(* A captured window is a sequence of lines; a line is represented by the  *)
(* features the heuristic reads of it.                                     *)

\* blank: whitespace only; text: no pattern; q: ends with '?';
\* yn: contains a PROMPT_INDICATOR such as [y/n]; ask: contains a
\* CLAUDE_PATTERN such as "Should I"; choice: "<digits>. " numbered choice;
\* q_yn: both q and yn, such as "Continue?"; q_ask: both q and ask, such as
\* "Should I go on?"
LineKinds == {"blank", "text", "q", "yn", "ask", "choice", "q_yn", "q_ask"}

\* the lines, 15 at most, the prompt and choice patterns are looked for in
RECENT_LINES == 15

\* the lines, 5 at most, tested for a trailing question mark
QUESTION_LINES == 5

\* trimmed.ends_with('?')
ends_with_question(line) == line \in {"q", "q_yn", "q_ask"}

\* the line contains one of PROMPT_INDICATORS
has_prompt_indicator(line) == line \in {"yn", "q_yn"}

\* the line contains one of CLAUDE_PATTERNS
has_claude_pattern(line) == line \in {"ask", "q_ask"}

WorkWindow == <<"text">>
MoreWindow == <<"text", "text">>
AskWindow == <<"text", "q", "yn">>

Windows == {WorkWindow, MoreWindow, AskWindow}

\* hash_output: DefaultHasher over the text; distinct windows of the model get
\* distinct 64-bit values.
hash_output(output) ==
    CASE output = WorkWindow -> 11
      [] output = MoreWindow -> 12
      [] output = AskWindow -> 13
      [] OTHER -> 10

Hashes == {hash_output(w) : w \in Windows}

LastN(seq, n) == SubSeq(seq, IF Len(seq) > n THEN Len(seq) - n + 1 ELSE 1, Len(seq))

RECURSIVE question_lines(_)
\* the lines, newest first, of `lines` that end with '?'
question_lines(lines) ==
    IF lines = <<>> THEN <<>>
    ELSE LET rest == question_lines(SubSeq(lines, 1, Len(lines) - 1))
         IN IF ends_with_question(lines[Len(lines)])
            THEN <<lines[Len(lines)]>> \o rest ELSE rest

\* has_numbered_choices
has_numbered_choices(lines) ==
    Cardinality({i \in 1..Len(lines) : lines[i] = "choice"}) >= 2

RECURSIVE last_non_blank(_)
last_non_blank(lines) ==
    IF lines = <<>> THEN None
    ELSE IF lines[Len(lines)] # "blank" THEN Some(lines[Len(lines)])
    ELSE last_non_blank(SubSeq(lines, 1, Len(lines) - 1))

\* extract_question: only the last non-blank line is inspected
extract_question(lines) ==
    LET l == last_non_blank(lines)
    IN IF IsSome(l) /\ (\/ ends_with_question(Unwrap(l))
                         \/ has_prompt_indicator(Unwrap(l))
                         \/ has_claude_pattern(Unwrap(l)))
       THEN l ELSE None

\* detect_input_waiting; the confidence is kept in hundredths
detect_input_waiting(output, agent) ==
    LET recent == LastN(output, RECENT_LINES)
        qs == question_lines(LastN(output, QUESTION_LINES))
        c1 == 40 * Len(qs)
        c2 == IF \E i \in 1..Len(recent) : has_prompt_indicator(recent[i])
              THEN 30 ELSE 0
        c3 == IF agent = "claude" /\ \E i \in 1..Len(recent) : has_claude_pattern(recent[i])
              THEN 35 ELSE 0
        c4 == IF has_numbered_choices(recent) THEN 25 ELSE 0
        sum == c1 + c2 + c3 + c4
        q1 == IF qs # <<>> THEN Some(qs[1]) ELSE None
        q2 == IF ~IsSome(q1) /\ sum > 30 THEN extract_question(recent) ELSE q1
        confidence == IF sum > 100 THEN 100 ELSE sum
    IN [waiting_for_input |-> confidence >= 50,
        detected_question |-> q2,
        confidence |-> confidence]

----------------------------------------------------------------------------
(* Checks (sessions/checks.rs). A check is represented by its type and its *)
(* retry options; the world it is run against by the number of the first   *)
(* attempt at which one run of the check would pass (0: at no attempt).    *)

Check(type, auto_retry, max_retries) ==
    [type |-> type, auto_retry |-> auto_retry, max_retries |-> max_retries]

\* Check::HumanApproval { id }: no retry options
HumanApproval == Check("human_approval", None, None)

Min(a, b) == IF a < b THEN a ELSE b

\* Mutant: max_retries is taken as given, without the ceiling of 10.
retry_config_unclamped(check) ==
    IF check.type = "human_approval"
    THEN [auto_retry |-> FALSE, max_retries |-> 0]
    ELSE [auto_retry |-> IF IsSome(check.auto_retry) THEN Unwrap(check.auto_retry)
                         ELSE FALSE,
          max_retries |-> IF IsSome(check.max_retries)
                          THEN Unwrap(check.max_retries) ELSE 2]

\* Mutant: a human-approval check is given the retry options of the others.
retry_config_retries_human(check) ==
    [auto_retry |-> TRUE, max_retries |-> 2]

\* Check::retry_config
retry_config(check) ==
    IF check.type = "human_approval"
    THEN [auto_retry |-> FALSE, max_retries |-> 0]
    ELSE [auto_retry |-> IF IsSome(check.auto_retry) THEN Unwrap(check.auto_retry)
                         ELSE FALSE,
          max_retries |-> Min(IF IsSome(check.max_retries)
                              THEN Unwrap(check.max_retries) ELSE 2, 10)]

\* Mutant: a human-approval check passes like any other check.
run_single_check_once_human_passes(check, n, passes_at) ==
    [check_type |-> check.type, passed |-> passes_at # 0 /\ n >= passes_at]

\* run_single_check_once, as the n-th run of the check
run_single_check_once(check, n, passes_at) ==
    IF check.type = "human_approval"
    THEN [check_type |-> "human_approval", passed |-> FALSE]
    ELSE [check_type |-> check.type, passed |-> passes_at # 0 /\ n >= passes_at]

RECURSIVE retry_loop(_, _, _)
\* the loop of run_single_check, entered with `attempt` retries done; the
\* result carries the number of runs made
retry_loop(check, attempt, passes_at) ==
    LET cfg == retry_config(check)
        result == run_single_check_once(check, attempt + 1, passes_at)
    IN IF result.passed
       THEN [check_type |-> result.check_type, passed |-> TRUE, runs |-> attempt + 1]
       ELSE IF ~cfg.auto_retry \/ attempt >= cfg.max_retries
       THEN [check_type |-> result.check_type, passed |-> FALSE, runs |-> attempt + 1]
       ELSE retry_loop(check, attempt + 1, passes_at)

\* run_single_check
run_single_check(check, passes_at) == retry_loop(check, 0, passes_at)

\* run_checks: every check is run, in order
run_checks(checks, world) ==
    [i \in 1..Len(checks) |-> run_single_check(checks[i], world[i])]

\* CheckResult as serialized in the event (the number of runs is not part of it)
CheckResult(r) == [check_type |-> r.check_type, passed |-> r.passed]

\* Mutant: a failed check-runner task counts as no check having failed.
checks_outcome_join_error_passes(join_ok, results) ==
    IF join_ok
    THEN [check_results |-> results,
          all_checks_passed |-> \A i \in 1..Len(results) : results[i].passed]
    ELSE [check_results |-> <<>>, all_checks_passed |-> TRUE]

\* match check_results_join { Ok(results) => (results, all passed),
\*                            Err(e) => (Vec::new(), false) }
checks_outcome(join_ok, results) ==
    IF join_ok
    THEN [check_results |-> results,
          all_checks_passed |-> \A i \in 1..Len(results) : results[i].passed]
    ELSE [check_results |-> <<>>, all_checks_passed |-> FALSE]

\* The checks a node can carry in the model, and the worlds they run against.
NodeChecks ==
    { <<>>,
      <<Check("command", None, None)>>,
      <<Check("file_exists", Some(TRUE), Some(1)), HumanApproval>> }

PassesAt == {0, 1, 2}

Worlds(checks) == [1..Len(checks) -> PassesAt]

----------------------------------------------------------------------------
(* Events emitted to the window *)

Event(kind, success, exit_code, all_checks_passed) ==
    [kind |-> kind, success |-> success, exit_code |-> exit_code,
     all_checks_passed |-> all_checks_passed, check_results |-> <<>>,
     delivered |-> TRUE]

\* SessionCompletedEvent
CompletedEvent(exit_code, check_results, all_checks_passed, success) ==
    [Event("completed", success, exit_code, all_checks_passed)
       EXCEPT !.check_results = check_results]

\* SessionAwaitingInputEvent / SessionAwaitingInputClearedEvent
AwaitingInputEvent == Event("awaiting_input", FALSE, 0, FALSE)
AwaitingInputClearedEvent == Event("awaiting_input_cleared", FALSE, 0, FALSE)

\* the desktop notification "<label> needs input"
Notification == Event("notification", FALSE, 0, FALSE)

\* window.emit(..) / notification().show(): the call is logged with its
\* outcome; an Err is only traced by the caller
emit(log, id, ev, ok) == [log EXCEPT ![id] = Append(@, [ev EXCEPT !.delivered = ok])]

----------------------------------------------------------------------------
(* Sentinel file *)

\* tokio::fs::metadata(&exit_file).await.is_ok()
exit_file_exists(content) == content # "absent"

\* read_to_string(..).ok().and_then(|s| s.trim().parse::<i32>().ok()).unwrap_or(-1)
\* "0" and "1" stand for the text echo writes; "" is the file the shell has
\* created and not yet written.
parse_exit_code(content) ==
    CASE content = "0" -> 0
      [] content = "1" -> 1
      [] OTHER -> -1

ExitContents == {"0", "1"}

----------------------------------------------------------------------------
(* Initial state *)

MonIdle ==
    [pc |-> "sleep", queue |-> {}, cur |-> 0, agent |-> "", exit_code |-> 0,
     node_checks |-> <<>>, checks_ran |-> FALSE, check_runs |-> <<>>,
     check_results |-> <<>>,
     all_checks_passed |-> FALSE, output |-> <<>>, question |-> None]

NoCall == [op |-> "none", id |-> 0, arg |-> 0, before |-> None, ret |-> None]

\* no execution requested yet
NoExec == [pc |-> "idle"]

\* no process registered yet
NoProcs == [pc |-> "idle"]

\* the mutex of SessionManager.sessions is free and no task is inside a method
NoLock == [holder |-> "none"]

NoPoll == [last |-> <<>>, run |-> 0]

\* the history after a poll that read `output`; runs of 3 and more are not
\* told apart
Polled(p, output) ==
    IF p.last = output /\ p.run > 0
    THEN [p EXCEPT !.run = Min(@ + 1, 3)]
    ELSE [last |-> output, run |-> 1]

EmptyTable == [x \in {} |-> NewSession(x, "")]

Init ==
    /\ sessions = EmptyTable
    /\ nextId = 0
    /\ tmux = {}
    /\ exitFile = [id \in SessionIds |-> "absent"]
    /\ agentPhase = [id \in SessionIds |-> "none"]
    /\ pane = [id \in SessionIds |-> <<>>]
    /\ mon = MonIdle
    /\ ticks = 0
    /\ create = [pc |-> "idle", id |-> 0, input |-> None, mux_result |-> "none"]
    /\ kill = [pc |-> "idle", id |-> 0]
    /\ emitted = [id \in SessionIds |-> <<>>]
    /\ polls = [id \in SessionIds |-> NoPoll]
    /\ exec = NoExec
    /\ procs = NoProcs
    /\ lock = NoLock
    /\ call = NoCall

----------------------------------------------------------------------------
(* create_interactive_session -> SessionManager::create_session *)

\* Mutant: a failed tmux create is ignored and the record inserted anyway.
create_after_tmux_ignore_error(ok) == "insert"

\* `?` after tmux::create_session (manager.rs:76)
create_after_tmux(ok) == IF ok THEN "insert" ELSE "err"

\* parse_agent and build_agent_command on a fresh session id; nothing is
\* spawned and no lock is taken up to here.
CreateValidate ==
    /\ create.pc \in {"idle", "ok", "err"}
    /\ \E input \in CreateInputs :
         IF parse_agent(input.agent) = "Err"
            \/ ~build_agent_command(input.model, input.extra_args)
         THEN /\ create' = [pc |-> "err", id |-> nextId + 1, input |-> Some(input),
                            mux_result |-> "none"]
              /\ UNCHANGED nextId
         ELSE /\ nextId < Cardinality(SessionIds)
              /\ create' = [pc |-> "tmux", id |-> nextId + 1, input |-> Some(input),
                            mux_result |-> "none"]
              /\ nextId' = nextId + 1
    /\ UNCHANGED <<sessions, tmux, exitFile, agentPhase, pane, mon, ticks, kill,
                   emitted, call, polls, exec, procs, lock>>

\* tmux::create_session(&session_id, &command, cwd)
CreateTmux ==
    /\ create.pc = "tmux"
    /\ \E ok \in BOOLEAN :
         /\ create' = [create EXCEPT !.pc = create_after_tmux(ok),
                                     !.mux_result = IF ok THEN "ok" ELSE "failed"]
         /\ IF ok
            THEN /\ tmux' = tmux \cup {create.id}
                 /\ agentPhase' = [agentPhase EXCEPT ![create.id] = "running"]
                 /\ pane' = [pane EXCEPT ![create.id] = WorkWindow]
            ELSE UNCHANGED <<tmux, agentPhase, pane>>
    /\ UNCHANGED <<sessions, nextId, exitFile, mon, ticks, kill, emitted, call, polls, exec, procs, lock>>

\* self.sessions.lock().await.insert(session_id, session); Ok(session)
CreateInsert ==
    /\ create.pc = "insert"
    /\ sessions' = insert(sessions, create.id,
                          NewSession(create.id, Unwrap(create.input).agent))
    /\ create' = [create EXCEPT !.pc = "ok"]
    /\ UNCHANGED <<nextId, tmux, exitFile, agentPhase, pane, mon, ticks, kill,
                   emitted, call, polls, exec, procs, lock>>

----------------------------------------------------------------------------
(* kill_interactive_session -> SessionManager::kill_session *)

\* Mutant: the error of tmux::kill_session is dropped and the record removed.
kill_after_tmux_ignore_error(ok) == "remove"

\* `?` after tmux::kill_session (manager.rs:105)
kill_after_tmux(ok) == IF ok THEN "remove" ELSE "err"

\* tmux::kill_session(session_id): `tmux kill-session -t id` fails when the
\* server does not hold the session, and may fail when it does (tmux not on
\* PATH, spawn error). The id is any id ever generated.
KillTmux ==
    /\ kill.pc \in {"idle", "ok", "err"}
    /\ \E id \in 1..nextId :
      \E ok \in (IF id \in tmux THEN BOOLEAN ELSE {FALSE}) :
         /\ kill' = [pc |-> kill_after_tmux(ok), id |-> id]
         /\ tmux' = IF ok THEN tmux \ {id} ELSE tmux
    /\ UNCHANGED <<sessions, nextId, exitFile, agentPhase, pane, mon, ticks, create,
                   emitted, call, polls, exec, procs, lock>>

\* self.sessions.lock().await.remove(session_id); Ok(())
KillRemove ==
    /\ kill.pc = "remove"
    /\ sessions' = remove_session(sessions, kill.id)
    /\ kill' = [kill EXCEPT !.pc = "ok"]
    /\ UNCHANGED <<nextId, tmux, exitFile, agentPhase, pane, mon, ticks, create,
                   emitted, call, polls, exec, procs, lock>>

----------------------------------------------------------------------------
(* Environment: the wrapped command inside each tmux session, the user *)

\* `echo $? > '<exit_file>'`: the shell creates (truncates) the file ...
AgentOpensExitFile ==
    /\ \E id \in tmux :
         /\ agentPhase[id] = "running"
         /\ agentPhase' = [agentPhase EXCEPT ![id] = "writing"]
         /\ exitFile' = [exitFile EXCEPT ![id] = ""]
    /\ UNCHANGED <<sessions, nextId, tmux, pane, mon, ticks, create, kill, emitted,
                   call, polls, exec, procs, lock>>

\* ... and then writes the exit code into it (into the unlinked file, when
\* the Monitor has removed it in between), then execs the interactive shell.
AgentWritesExitCode ==
    /\ \E id \in tmux, content \in ExitContents :
         /\ agentPhase[id] = "writing"
         /\ agentPhase' = [agentPhase EXCEPT ![id] = "shell"]
         /\ exitFile' = [exitFile EXCEPT
                           ![id] = IF @ = "absent" THEN "absent" ELSE content]
    /\ UNCHANGED <<sessions, nextId, tmux, pane, mon, ticks, create, kill, emitted,
                   call, polls, exec, procs, lock>>

\* the agent (or the shell after it) prints: the pane content changes
PaneOutput ==
    /\ \E id \in tmux, w \in Windows :
         /\ w # pane[id]
         /\ pane' = [pane EXCEPT ![id] = w]
    /\ UNCHANGED <<sessions, nextId, tmux, exitFile, agentPhase, mon, ticks, create,
                   kill, emitted, call, polls, exec, procs, lock>>

\* the tmux session ends outside the application (user exits the shell,
\* `tmux kill-session` in a terminal, server killed)
TmuxDies ==
    /\ \E id \in tmux : tmux' = tmux \ {id}
    /\ UNCHANGED <<sessions, nextId, exitFile, agentPhase, pane, mon, ticks, create,
                   kill, emitted, call, polls, exec, procs, lock>>

----------------------------------------------------------------------------
(* Monitor: start_monitor's loop, one action per await point *)

\* Mutant: the status filter is missing, every tracked session is polled.
MonitoredStatusAll(status) == TRUE

\* the filter of the tick's session list (monitor.rs:102-107)
MonitoredStatus(status) == status \in {"Running", "AwaitingInput"}

\* poll_interval.tick(); list_sessions() filtered
MonitorTick ==
    /\ mon.pc = "sleep"
    /\ ticks < MaxTicks
    /\ ticks' = ticks + 1
    /\ mon' = [MonIdle EXCEPT
                 !.pc = "next",
                 !.queue = {[id |-> id, agent |-> sessions[id].agent] :
                              id \in {x \in DOMAIN sessions :
                                        MonitoredStatus(sessions[x].status)}}]
    /\ UNCHANGED <<sessions, nextId, tmux, exitFile, agentPhase, pane, create, kill,
                   emitted, call, polls, exec, procs, lock>>

\* `for session in sessions` (HashMap order: any), then metadata(&exit_file)
MonitorNextSession ==
    /\ mon.pc = "next"
    /\ \E s \in mon.queue :
         mon' = [MonIdle EXCEPT
                   !.queue = mon.queue \ {s},
                   !.cur = s.id,
                   !.agent = s.agent,
                   !.pc = IF exit_file_exists(exitFile[s.id]) THEN "read" ELSE "exists"]
    /\ UNCHANGED <<sessions, nextId, tmux, exitFile, agentPhase, pane, ticks, create,
                   kill, emitted, call, polls, exec, procs, lock>>

\* the tick's list is exhausted
MonitorTickDone ==
    /\ mon.pc = "next"
    /\ mon.queue = {}
    /\ mon' = MonIdle
    /\ UNCHANGED <<sessions, nextId, tmux, exitFile, agentPhase, pane, ticks, create,
                   kill, emitted, call, polls, exec, procs, lock>>

\* the node's checks as stored in the project at that moment, run in a
\* blocking task against the working directory; a JoinError (the task
\* panicked or was cancelled) leaves no results
RunNodeChecks(m, pc) ==
    \E node_checks \in NodeChecks :
      \E world \in Worlds(node_checks), join_ok \in BOOLEAN :
        LET runs == run_checks(node_checks, world)
            out == checks_outcome(join_ok, [i \in 1..Len(runs) |-> CheckResult(runs[i])])
        IN mon' = [m EXCEPT !.pc = pc,
                            !.node_checks = node_checks,
                            !.checks_ran = join_ok,
                            !.check_runs = IF join_ok THEN runs ELSE <<>>,
                            !.check_results = out.check_results,
                            !.all_checks_passed = out.all_checks_passed]

\* read the exit code, capture the final pane, run the node's checks
MonitorReadExit ==
    /\ mon.pc = "read"
    /\ RunNodeChecks([mon EXCEPT !.exit_code = parse_exit_code(exitFile[mon.cur])],
                     "mark")
    /\ UNCHANGED <<sessions, nextId, tmux, exitFile, agentPhase, pane, ticks, create,
                   kill, emitted, call, polls, exec, procs, lock>>

\* session_manager.mark_completed(&session.id, exit_code)
MonitorMarkCompleted ==
    /\ mon.pc = "mark"
    /\ sessions' = mark_completed(sessions, mon.cur, mon.exit_code)
    /\ mon' = [mon EXCEPT !.pc = "emit"]
    /\ UNCHANGED <<nextId, tmux, exitFile, agentPhase, pane, ticks, create, kill,
                   emitted, call, polls, exec, procs, lock>>

\* Mutant: the checks are left out of success.
completed_success_exit_code_only(exit_code, all_checks_passed) == exit_code = 0

\* let success = exit_code == 0 && all_checks_passed (monitor.rs:151)
completed_success(exit_code, all_checks_passed) ==
    exit_code = 0 /\ all_checks_passed

\* window.emit("session://completed", ..)
MonitorEmitCompleted ==
    /\ mon.pc = "emit"
    /\ \E ok \in BOOLEAN :
         emitted' = emit(emitted, mon.cur,
                         CompletedEvent(mon.exit_code, mon.check_results,
                                        mon.all_checks_passed,
                                        completed_success(mon.exit_code,
                                                          mon.all_checks_passed)),
                         ok)
    /\ mon' = [mon EXCEPT !.pc = "delete"]
    /\ UNCHANGED <<sessions, nextId, tmux, exitFile, agentPhase, pane, ticks, create,
                   kill, call, polls, exec, procs, lock>>

\* tokio::fs::remove_file(&exit_file): a failure is logged; continue
MonitorRemoveExitFile ==
    /\ mon.pc = "delete"
    /\ \E ok \in BOOLEAN :
         exitFile' = IF ok THEN [exitFile EXCEPT ![mon.cur] = "absent"] ELSE exitFile
    /\ mon' = [mon EXCEPT !.pc = "next"]
    /\ UNCHANGED <<sessions, nextId, tmux, agentPhase, pane, ticks, create, kill,
                   emitted, call, polls, exec, procs, lock>>

\* what tmux_session_exists can answer (monitor.rs:58-62, tmux.rs:36-42):
\* the exit status of `tmux has-session`, and false when the process cannot
\* be started or the blocking task is cancelled (unwrap_or(false), twice)
session_exists_answers(alive) == IF alive THEN BOOLEAN ELSE {FALSE}

\* tmux_session_exists(session.id); on a session reported dead, run the checks
MonitorSessionExists ==
    /\ mon.pc = "exists"
    /\ \E exists \in session_exists_answers(mon.cur \in tmux) :
         IF exists
         THEN mon' = [mon EXCEPT !.pc = "capture"]
         ELSE RunNodeChecks(mon, "dead_emit")
    /\ UNCHANGED <<sessions, nextId, tmux, exitFile, agentPhase, pane, ticks, create,
                   kill, emitted, call, polls, exec, procs, lock>>

\* Mutant: a session that died is always reported as a failure.
dead_success_never(all_checks_passed) == FALSE

\* success: all_checks_passed (monitor.rs:206)
dead_success(all_checks_passed) == all_checks_passed

\* the completion event of a dead session: exit code -1
MonitorDeadEmit ==
    /\ mon.pc = "dead_emit"
    /\ \E ok \in BOOLEAN :
         emitted' = emit(emitted, mon.cur,
                         CompletedEvent(-1, mon.check_results, mon.all_checks_passed,
                                        dead_success(mon.all_checks_passed)),
                         ok)
    /\ mon' = [mon EXCEPT !.pc = "dead_remove"]
    /\ UNCHANGED <<sessions, nextId, tmux, exitFile, agentPhase, pane, ticks, create,
                   kill, call, polls, exec, procs, lock>>

\* session_manager.remove_session(&session.id)
MonitorDeadRemove ==
    /\ mon.pc = "dead_remove"
    /\ sessions' = remove_session(sessions, mon.cur)
    /\ mon' = [mon EXCEPT !.pc = "next"]
    /\ UNCHANGED <<nextId, tmux, exitFile, agentPhase, pane, ticks, create, kill,
                   emitted, call, polls, exec, procs, lock>>

\* Mutant: a failed capture ends the Monitor task.
after_capture_halts(ok) == IF ok THEN "staleness" ELSE "halted"

\* match tmux_capture_pane(..) { Ok(o) => o, Err(e) => { warn; continue } }
after_capture(ok) == IF ok THEN "staleness" ELSE "next"

\* tmux_capture_pane(session.id, 50): fails when the session is gone, and
\* may fail when it is there (tmux not on PATH, spawn or join error)
MonitorCapture ==
    /\ mon.pc = "capture"
    /\ \E ok \in (IF mon.cur \in tmux THEN BOOLEAN ELSE {FALSE}) :
         mon' = [mon EXCEPT !.pc = after_capture(ok),
                            !.output = IF ok THEN pane[mon.cur] ELSE <<>>]
    /\ UNCHANGED <<sessions, nextId, tmux, exitFile, agentPhase, pane, ticks, create,
                   kill, emitted, call, polls, exec, procs, lock>>

\* Mutant: one unchanged poll is enough.
should_detect_any_stale(update) ==
    update.status = "Running" /\ update.is_stale

\* Mutant: the detection also runs for a session that is already AwaitingInput.
should_detect_ignores_status(update) ==
    update.is_stale /\ update.stale_count >= STALE_THRESHOLD

\* update.status == Running (monitor.rs:254) and
\* update.is_stale && update.stale_count >= STALE_THRESHOLD (monitor.rs:258)
should_detect(update) ==
    /\ update.status = "Running"
    /\ update.is_stale /\ update.stale_count >= STALE_THRESHOLD

\* update_staleness, the cleared event, and the input detection
MonitorUpdateStaleness ==
    /\ mon.pc = "staleness"
    /\ LET u == update_staleness(sessions, mon.cur, hash_output(mon.output))
           update == Unwrap(u.ret)
           detection == detect_input_waiting(mon.output, mon.agent)
       IN /\ sessions' = u.sessions
          /\ IF IsSome(u.ret) /\ update.cleared_awaiting_input
             THEN \E ok \in BOOLEAN :
                    emitted' = emit(emitted, mon.cur, AwaitingInputClearedEvent, ok)
             ELSE emitted' = emitted
          /\ mon' = IF /\ IsSome(u.ret)
                       /\ should_detect(update)
                       /\ detection.waiting_for_input
                    THEN [mon EXCEPT !.pc = "mark_awaiting",
                                     !.question = detection.detected_question]
                    ELSE [mon EXCEPT !.pc = "next"]
    /\ polls' = [polls EXCEPT ![mon.cur] = Polled(@, mon.output)]
    /\ UNCHANGED <<nextId, tmux, exitFile, agentPhase, pane, ticks, create, kill, call,
                   exec, procs, lock>>

\* mark_awaiting_input, the notification and the awaiting-input event
MonitorMarkAwaiting ==
    /\ mon.pc = "mark_awaiting"
    /\ sessions' = mark_awaiting_input(sessions, mon.cur, mon.question)
    /\ \E notified \in BOOLEAN, ok \in BOOLEAN :
         emitted' = emit(emit(emitted, mon.cur, Notification, notified),
                         mon.cur, AwaitingInputEvent, ok)
    /\ mon' = [mon EXCEPT !.pc = "next"]
    /\ UNCHANGED <<nextId, tmux, exitFile, agentPhase, pane, ticks, create, kill, call, polls, exec, procs, lock>>

----------------------------------------------------------------------------

Next ==
    \/ CreateValidate
    \/ CreateTmux
    \/ CreateInsert
    \/ KillTmux
    \/ KillRemove
    \/ AgentOpensExitFile
    \/ AgentWritesExitCode
    \/ PaneOutput
    \/ TmuxDies
    \/ MonitorTick
    \/ MonitorNextSession
    \/ MonitorTickDone
    \/ MonitorReadExit
    \/ MonitorMarkCompleted
    \/ MonitorEmitCompleted
    \/ MonitorRemoveExitFile
    \/ MonitorSessionExists
    \/ MonitorDeadEmit
    \/ MonitorDeadRemove
    \/ MonitorCapture
    \/ MonitorUpdateStaleness
    \/ MonitorMarkAwaiting

Spec == Init /\ [][Next]_vars

----------------------------------------------------------------------------
(* SpecMon: the Monitor alone over two tracked sessions, from every state  *)
(* of the sentinel files, the tmux server and the panes that the sessions  *)
(* can be in when a tick starts.                                           *)

MonIds == {1, 2}

InitMon ==
    /\ sessions = [id \in MonIds |-> NewSession(id, "claude")]
    /\ nextId = Cardinality(MonIds)
    /\ tmux \in SUBSET MonIds
    /\ exitFile \in [MonIds -> {"absent", "0", "1"}]
    /\ agentPhase = [id \in MonIds |->
                       IF exit_file_exists(exitFile[id]) THEN "shell" ELSE "running"]
    /\ pane \in [MonIds -> {WorkWindow, AskWindow}]
    /\ mon = MonIdle
    /\ ticks = 0
    /\ create = [pc |-> "idle", id |-> 0, input |-> None, mux_result |-> "none"]
    /\ kill = [pc |-> "idle", id |-> 0]
    /\ emitted = [id \in MonIds |-> <<>>]
    /\ polls = [id \in MonIds |-> NoPoll]
    /\ exec = NoExec
    /\ procs = NoProcs
    /\ lock = NoLock
    /\ call = NoCall

\* one step of the loop body of a tick
MonitorStep ==
    \/ MonitorNextSession
    \/ MonitorTickDone
    \/ MonitorReadExit
    \/ MonitorMarkCompleted
    \/ MonitorEmitCompleted
    \/ MonitorRemoveExitFile
    \/ MonitorSessionExists
    \/ MonitorDeadEmit
    \/ MonitorDeadRemove
    \/ MonitorCapture
    \/ MonitorUpdateStaleness
    \/ MonitorMarkAwaiting

NextMon ==
    \/ MonitorTick
    \/ MonitorStep

SpecMon == InitMon /\ [][NextMon]_vars

----------------------------------------------------------------------------
(* SpecApi: the SessionManager's operations called directly, one call at a *)
(* time. `call` records the last call: the operation, its arguments, the   *)
(* target's record before the call (None when the id was not tracked) and  *)
(* the value returned.                                                     *)

ApiHashes == {11, 12}
ApiExitCodes == {0, 1}
ApiQuestions == {None, Some("q")}

Lookup(tbl, id) == IF id \in DOMAIN tbl THEN Some(tbl[id]) ELSE None

Called(op, id, arg, ret) ==
    [op |-> op, id |-> id, arg |-> arg, before |-> Lookup(sessions, id), ret |-> ret]

\* create_session(node_id, agent, model, extra_args, prompt, cwd), with the
\* outcome of tmux::create_session drawn from {ok, error}
ApiCreateSession ==
    /\ nextId < Cardinality(ApiIds)
    /\ \E input \in CreateInputs, tmux_ok \in BOOLEAN :
         LET id == nextId + 1
             valid == /\ parse_agent(input.agent) # "Err"
                      /\ build_agent_command(input.model, input.extra_args)
             inserted == valid /\ create_after_tmux(tmux_ok) = "insert"
         IN /\ nextId' = IF valid THEN id ELSE nextId
            /\ sessions' = IF inserted
                           THEN insert(sessions, id, NewSession(id, input.agent))
                           ELSE sessions
            /\ call' = Called("create_session", id, input,
                              IF inserted THEN Some(NewSession(id, input.agent))
                              ELSE None)
    /\ UNCHANGED <<tmux, exitFile, agentPhase, pane, mon, ticks, create, kill,
                   emitted, polls, exec, procs, lock>>

\* kill_session(session_id), with the outcome of tmux::kill_session drawn
\* from {ok, error}
ApiKillSession ==
    /\ \E id \in ApiIds, ok \in BOOLEAN :
         /\ sessions' = IF kill_after_tmux(ok) = "remove"
                        THEN remove_session(sessions, id) ELSE sessions
         /\ call' = Called("kill_session", id, ok,
                           IF kill_after_tmux(ok) = "remove" THEN Some("Ok") ELSE None)
    /\ UNCHANGED <<nextId, tmux, exitFile, agentPhase, pane, mon, ticks, create, kill,
                   emitted, polls, exec, procs, lock>>

\* mark_completed(session_id, exit_code)
ApiMarkCompleted ==
    /\ \E id \in ApiIds, exit_code \in ApiExitCodes :
         /\ sessions' = mark_completed(sessions, id, exit_code)
         /\ call' = Called("mark_completed", id, exit_code, None)
    /\ UNCHANGED <<nextId, tmux, exitFile, agentPhase, pane, mon, ticks, create, kill,
                   emitted, polls, exec, procs, lock>>

\* remove_session(session_id)
ApiRemoveSession ==
    /\ \E id \in ApiIds :
         /\ sessions' = remove_session(sessions, id)
         /\ call' = Called("remove_session", id, 0, None)
    /\ UNCHANGED <<nextId, tmux, exitFile, agentPhase, pane, mon, ticks, create, kill,
                   emitted, polls, exec, procs, lock>>

\* mark_awaiting_input(session_id, detected_question)
ApiMarkAwaitingInput ==
    /\ \E id \in ApiIds, question \in ApiQuestions :
         /\ sessions' = mark_awaiting_input(sessions, id, question)
         /\ call' = Called("mark_awaiting_input", id, question, None)
    /\ UNCHANGED <<nextId, tmux, exitFile, agentPhase, pane, mon, ticks, create, kill,
                   emitted, polls, exec, procs, lock>>

\* update_staleness(session_id, output_hash); stale_poll_count is capped
ApiUpdateStaleness ==
    /\ \E id \in ApiIds, output_hash \in ApiHashes :
         LET u == update_staleness(sessions, id, output_hash)
         IN /\ (IsSome(u.ret) /\ Unwrap(u.ret).is_stale) =>
                  sessions[id].stale_poll_count < MaxStale
            /\ sessions' = u.sessions
            /\ call' = Called("update_staleness", id, output_hash, u.ret)
    /\ UNCHANGED <<nextId, tmux, exitFile, agentPhase, pane, mon, ticks, create, kill,
                   emitted, polls, exec, procs, lock>>

NextApi ==
    \/ ApiCreateSession
    \/ ApiKillSession
    \/ ApiMarkCompleted
    \/ ApiRemoveSession
    \/ ApiMarkAwaitingInput
    \/ ApiUpdateStaleness

SpecApi == Init /\ [][NextApi]_vars

----------------------------------------------------------------------------
(* SpecCmd: the commands that take a session id from the frontend          *)
(* (commands/sessions.rs). A string is the sequence of its characters.     *)

SESSION_ID_MAX_LEN == 128

\* the longest session id the commands are called with
MaxIdLen == 129

\* "orchestra-"
Prefix == <<"o", "r", "c", "h", "e", "s", "t", "r", "a", "-">>

Repeat(c, n) == [i \in 1..n |-> c]

\* the characters of the model: ASCII letters and digits, a letter outside
\* ASCII, and punctuation
AsciiAlphanumeric == {"o", "r", "c", "h", "e", "s", "t", "a", "f", "O", "7"}
NonAsciiAlphabetic == {"é"}

\* char::is_alphanumeric (Unicode Alphabetic or Numeric)
is_alphanumeric(c) == c \in AsciiAlphanumeric \cup NonAsciiAlphabetic

\* char::len_utf8
len_utf8(c) == IF c \in NonAsciiAlphabetic THEN 2 ELSE 1

\* str::len: the length in bytes of the UTF-8 encoding
str_len(s) ==
    LET two == Cardinality({i \in 1..Len(s) : len_utf8(s[i]) = 2})
    IN (Len(s) - two) + 2 * two

\* str::starts_with
starts_with(s, p) == Len(s) >= Len(p) /\ SubSeq(s, 1, Len(p)) = p

\* Mutant: the prefix is not required.
validate_session_id_no_prefix(session_id) ==
    IF ~(\A i \in 1..Len(session_id) :
            is_alphanumeric(session_id[i]) \/ session_id[i] = "-" \/ session_id[i] = "_")
    THEN "Err: contains invalid characters"
    ELSE IF str_len(session_id) > SESSION_ID_MAX_LEN
    THEN "Err: too long"
    ELSE "Ok"

\* validate_session_id
validate_session_id(session_id) ==
    IF ~starts_with(session_id, Prefix)
    THEN "Err: must start with 'orchestra-'"
    ELSE IF ~(\A i \in 1..Len(session_id) :
                 is_alphanumeric(session_id[i]) \/ session_id[i] = "-"
                 \/ session_id[i] = "_")
    THEN "Err: contains invalid characters"
    ELSE IF str_len(session_id) > SESSION_ID_MAX_LEN
    THEN "Err: too long"
    ELSE "Ok"

\* the id of the session the application has created: "orchestra-" and the
\* 36 characters of a uuid
TrackedId == Prefix \o Repeat("f", 36)

\* a tmux session of the user that the application did not create
ForeignId == <<"f", "o", "o">>

\* the ids the commands are called with
SessionIdInputs ==
    LET pads == {0, 36, MaxIdLen - 12, MaxIdLen - 11, MaxIdLen - 10}
        fill == {"f", "7", "-", "_"}
        wide == {(MaxIdLen - 11) \div 2, (MaxIdLen - 9) \div 2}
    IN {Prefix \o Repeat(c, n) : c \in fill, n \in pads}
       \cup {Prefix \o Repeat("é", n) : n \in wide \cup {1}}
       \cup {Prefix \o Repeat("f", n) \o <<c>> : c \in {";", " ", "'", "$"},
                                                   n \in {0, 36}}
       \cup {<<>>, ForeignId, SubSeq(Prefix, 1, 9), <<"O">> \o Tail(Prefix),
             <<"f">> \o Prefix, Tail(Prefix) \o Repeat("f", 36)}

\* what a command has done when it returns
Outcome(result, mux_calls, tbl, mux) ==
    [result |-> result, mux_calls |-> mux_calls, sessions |-> tbl, tmux |-> mux]

\* SessionManager::kill_session on a table keyed by the id strings
kill_session(tbl, mux, id, ok) ==
    LET killed == ok /\ id \in mux
    IN IF kill_after_tmux(killed) = "remove"
       THEN Outcome("Ok", <<"kill-session">>, remove_session(tbl, id), mux \ {id})
       ELSE Outcome("Err", <<"kill-session">>, tbl, mux)

\* Mutant: the id goes to the SessionManager without validation.
kill_interactive_session_unvalidated(tbl, mux, id, ok) == kill_session(tbl, mux, id, ok)

\* kill_interactive_session
kill_interactive_session(tbl, mux, id, ok) ==
    IF validate_session_id(id) # "Ok"
    THEN Outcome("Err", <<>>, tbl, mux)
    ELSE kill_session(tbl, mux, id, ok)

\* send_session_input -> tmux::send_keys
send_session_input(tbl, mux, id, ok) ==
    IF validate_session_id(id) # "Ok"
    THEN Outcome("Err", <<>>, tbl, mux)
    ELSE Outcome(IF ok /\ id \in mux THEN "Ok" ELSE "Err", <<"send-keys">>, tbl, mux)

\* capture_session_output -> tmux::capture_pane
capture_session_output(tbl, mux, id, ok) ==
    IF validate_session_id(id) # "Ok"
    THEN Outcome("Err", <<>>, tbl, mux)
    ELSE Outcome(IF ok /\ id \in mux THEN "Ok" ELSE "Err", <<"capture-pane">>, tbl, mux)

\* get_attach_command: the string "tmux attach -t <id>", nothing is run
get_attach_command(tbl, mux, id, ok) ==
    IF validate_session_id(id) # "Ok"
    THEN Outcome("Err", <<>>, tbl, mux)
    ELSE Outcome("Ok", <<>>, tbl, mux)

\* attach_session: a terminal emulator is spawned on `tmux attach -t <id>`;
\* ok is whether the terminal could be spawned
attach_session(tbl, mux, id, ok) ==
    IF validate_session_id(id) # "Ok"
    THEN Outcome("Err", <<>>, tbl, mux)
    ELSE Outcome(IF ok THEN "Ok" ELSE "Err", <<"attach">>, tbl, mux)

\* open_in_ghostty: Ghostty is spawned on `tmux attach -t <id>`
open_in_ghostty(tbl, mux, id, ok) ==
    IF validate_session_id(id) # "Ok"
    THEN Outcome("Err", <<>>, tbl, mux)
    ELSE Outcome(IF ok THEN "Ok" ELSE "Err", <<"attach">>, tbl, mux)

InitCmd ==
    /\ sessions = [id \in {TrackedId} |-> NewSession(id, "claude")]
    /\ nextId = 1
    /\ tmux = {TrackedId, ForeignId}
    /\ exitFile = [id \in {TrackedId} |-> "absent"]
    /\ agentPhase = [id \in {TrackedId} |-> "running"]
    /\ pane = [id \in {TrackedId} |-> WorkWindow]
    /\ mon = MonIdle
    /\ ticks = 0
    /\ create = [pc |-> "idle", id |-> 0, input |-> None, mux_result |-> "none"]
    /\ kill = [pc |-> "idle", id |-> 0]
    /\ emitted = [id \in {TrackedId} |-> <<>>]
    /\ polls = [id \in {TrackedId} |-> NoPoll]
    /\ exec = NoExec
    /\ procs = NoProcs
    /\ lock = NoLock
    /\ call = [NoCall EXCEPT !.id = <<>>, !.arg = FALSE]

\* a command returns `out`
Returns(op, id, ok, out) ==
    /\ sessions' = out.sessions
    /\ tmux' = out.tmux
    /\ call' = Called(op, id, ok, Some([result |-> out.result,
                                         mux_calls |-> out.mux_calls]))
    /\ UNCHANGED <<nextId, exitFile, agentPhase, pane, mon, ticks, create, kill,
                   emitted, polls, exec, procs, lock>>

CmdAttachSession ==
    \E id \in SessionIdInputs, ok \in BOOLEAN :
       Returns("attach_session", id, ok, attach_session(sessions, tmux, id, ok))

CmdSendSessionInput ==
    \E id \in SessionIdInputs, ok \in BOOLEAN :
       Returns("send_session_input", id, ok, send_session_input(sessions, tmux, id, ok))

CmdCaptureSessionOutput ==
    \E id \in SessionIdInputs, ok \in BOOLEAN :
       Returns("capture_session_output", id, ok,
               capture_session_output(sessions, tmux, id, ok))

CmdKillInteractiveSession ==
    \E id \in SessionIdInputs, ok \in BOOLEAN :
       Returns("kill_interactive_session", id, ok,
               kill_interactive_session(sessions, tmux, id, ok))

CmdGetAttachCommand ==
    \E id \in SessionIdInputs :
       Returns("get_attach_command", id, TRUE,
               get_attach_command(sessions, tmux, id, TRUE))

CmdOpenInGhostty ==
    \E id \in SessionIdInputs, ok \in BOOLEAN :
       Returns("open_in_ghostty", id, ok, open_in_ghostty(sessions, tmux, id, ok))

NextCmd ==
    \/ CmdAttachSession
    \/ CmdSendSessionInput
    \/ CmdCaptureSessionOutput
    \/ CmdKillInteractiveSession
    \/ CmdGetAttachCommand
    \/ CmdOpenInGhostty

SpecCmd == InitCmd /\ [][NextCmd]_vars

----------------------------------------------------------------------------
(* SpecBuild: build_agent_command on strings given character by character, *)
(* and the shell that reads the command line it renders.                    *)

\* the longest prompt the builder is called with
MaxPromptLen == 3

\* char::is_ascii_alphanumeric
is_ascii_alphanumeric(c) == c \in AsciiAlphanumeric

\* the model string as validate_model reads it
StrOf(m) ==
    Str(str_len(m),
        \A i \in 1..Len(m) :
           is_ascii_alphanumeric(m[i]) \/ m[i] \in {".", "_", "-", ":", "/"})

\* an extra argument as the validation reads it; "NUL" is the character '\0'
ArgOf(a) == Arg(str_len(a), \E i \in 1..Len(a) : a[i] = "NUL")

\* str::trim of the prompt
trim(str) ==
    LET ink == {i \in 1..Len(str) : str[i] # " "}
    IN IF ink = {} THEN <<>>
       ELSE SubSeq(str, CHOOSE i \in ink : \A j \in ink : i <= j,
                        CHOOSE i \in ink : \A j \in ink : i >= j)

RECURSIVE replace_quotes(_, _, _)
\* s.replace('\'', "'\\''") on the characters lo..hi of s
replace_quotes(s, lo, hi) ==
    IF lo > hi THEN <<>>
    ELSE IF lo = hi
    THEN (IF s[lo] = "'" THEN <<"'", "\\", "'", "'">> ELSE <<s[lo]>>)
    ELSE LET mid == (lo + hi) \div 2
         IN replace_quotes(s, lo, mid) \o replace_quotes(s, mid + 1, hi)

\* Mutant: the argument is wrapped in quotes, its own quotes are left alone.
sh_escape_single_arg_no_replace(s) == <<"'">> \o s \o <<"'">>

\* sh_escape_single_arg
sh_escape_single_arg(s) == <<"'">> \o replace_quotes(s, 1, Len(s)) \o <<"'">>

\* the argv of the three agents (manager.rs:244-298); a fixed word of the
\* source is one character of the model
agent_argv(agent, model, extra_args, prompt) ==
    LET with_model(flag) == IF IsSome(model) THEN <<<<flag>>, Unwrap(model)>> ELSE <<>>
        with_prompt(flag) == IF prompt # <<>> THEN flag \o <<prompt>> ELSE <<>>
    IN CASE agent = "Claude" ->
              <<<<"claude">>, <<"--allowedTools">>, <<"Bash,Read,Write,Edit,Glob,Grep">>>>
                \o with_model("--model") \o extra_args \o with_prompt(<<>>)
         [] agent = "Codex" ->
              <<<<"codex">>>> \o with_model("--model") \o extra_args \o with_prompt(<<>>)
         [] agent = "Gemini" ->
              <<<<"gemini">>>> \o with_model("-m") \o extra_args
                \o with_prompt(<<<<"-i">>>>)

RECURSIVE push_args(_, _, _)
\* for a in args { agent_cmd.push(' '); agent_cmd.push_str(&sh_escape_single_arg(a)) }
\* on the arguments lo..hi of argv
push_args(argv, lo, hi) ==
    IF lo > hi THEN <<>>
    ELSE IF lo = hi THEN <<" ">> \o sh_escape_single_arg(argv[lo])
    ELSE LET mid == (lo + hi) \div 2
         IN push_args(argv, lo, mid) \o push_args(argv, mid + 1, hi)

\* the wrapped command line (manager.rs:312-315)
wrap_command(agent_cmd, exit_file) ==
    <<"mkdir", " ", "-p", " ", "/tmp/orchestra-sessions", " ", "&&", " ">>
      \o agent_cmd
      \o <<" ", ";", " ", "echo", " ", "$?", " ", ">", " ", "'", exit_file, "'", " ",
           "&&", " ", "echo", " ", "'", "Session ended. Type exit to close.", "'", " ",
           "&&", " ", "exec", " ", "${SHELL:-/bin/bash}">>

\* build_agent_command: None for Err, Some(command line) for Ok
build_agent_command_line(session_id, agent, model, extra_args, prompt) ==
    LET args == IF IsSome(extra_args) THEN Unwrap(extra_args) ELSE <<>>
        valid == build_agent_command(
                    IF IsSome(model) THEN Some(StrOf(Unwrap(model))) ELSE None,
                    Some([i \in 1..Len(args) |-> ArgOf(args[i])]))
        argv == agent_argv(agent, model, args, trim(prompt))
    IN IF ~valid THEN None
       ELSE Some(wrap_command(argv[1] \o push_args(argv, 2, Len(argv)),
                              "/tmp/orchestra-sessions/" \o session_id \o ".exit"))

\* The shell (`sh -c <command>`, tmux.rs:25): quoting, word splitting and
\* command separation, for the characters of PromptChars and of the fixed
\* words; a word of a command is the sequence of its characters
ShStart ==
    [mode |-> "plain", word |-> <<>>, in_word |-> FALSE, words |-> <<>>,
     cmds |-> <<>>, expands |-> FALSE, bare |-> <<>>]

sh_end_word(st) ==
    IF st.in_word
    THEN [st EXCEPT !.words = Append(@, st.word), !.word = <<>>, !.in_word = FALSE]
    ELSE st

sh_end_command(st) ==
    LET w == sh_end_word(st)
    IN IF w.words # <<>> THEN [w EXCEPT !.cmds = Append(@, w.words), !.words = <<>>]
       ELSE w

sh_step(st, c) ==
    CASE st.mode = "squote" ->
           IF c = "'" THEN [st EXCEPT !.mode = "plain"]
           ELSE [st EXCEPT !.word = Append(@, c)]
      [] st.mode = "escape" ->
           [st EXCEPT !.mode = "plain", !.word = Append(@, c)]
      [] OTHER ->
           CASE c = "'" -> [st EXCEPT !.mode = "squote", !.in_word = TRUE]
             [] c = "\\" -> [st EXCEPT !.mode = "escape", !.in_word = TRUE]
             [] c = " " -> sh_end_word(st)
             [] c \in {";", "&&"} -> sh_end_command(st)
             [] c \in {"$", "(", ")"} ->
                  [st EXCEPT !.expands = TRUE, !.word = Append(@, c), !.in_word = TRUE,
                             !.bare = Append(@, c)]
             [] OTHER -> [st EXCEPT !.word = Append(@, c), !.in_word = TRUE,
                                    !.bare = Append(@, c)]

RECURSIVE sh_read(_, _, _, _)
\* the shell reads the characters lo..hi of the line, from left to right
sh_read(st, line, lo, hi) ==
    IF lo > hi THEN st
    ELSE IF lo = hi THEN sh_step(st, line[lo])
    ELSE LET mid == (lo + hi) \div 2
             \* the state after the left half, computed before the right half
             left == sh_read(st, line, lo, mid)
         IN IF left.mode \in {"plain", "squote", "escape"}
            THEN sh_read(left, line, mid + 1, hi)
            ELSE left

\* the commands the shell runs for a command line, whether it expands
\* anything, the characters it reads unquoted, and whether every quote is
\* closed
sh_parse(line) ==
    LET st == sh_end_command(sh_read(ShStart, line, 1, Len(line)))
    IN [cmds |-> st.cmds, expands |-> st.expands, bare |-> st.bare,
        closed |-> st.mode = "plain"]

AgentKinds == {"Claude", "Codex", "Gemini"}

PromptChars == {"a", "'", ";", "$", " ", "\\"}

Prompts == UNION {[1..n -> PromptChars] : n \in 0..MaxPromptLen}

\* inputs with quotes, separators and expansions in the prompt and in the
\* extra arguments
QuotingInputs ==
    [agent : AgentKinds,
     model : {None, Some(<<"a", "7">>)},
     extra_args : {None, Some(<<<<"-", "-", "a">>>>),
                   Some(<<<<"'", ";">>, <<"a", " ", "$", "(", "a", ")">>>>)},
     prompt : Prompts]

\* inputs at and around the bounds of the validation
BoundInputs ==
    [agent : {"Codex"},
     model : {None, Some(<<>>), Some(<<"a", ";">>), Some(<<"a", "é">>),
              Some(<<"a", ".", "_", "-", ":", "/", "7">>)}
             \cup {Some(Repeat("a", n)) : n \in {MODEL_MAX_LEN - 1, MODEL_MAX_LEN, MODEL_MAX_LEN + 1}},
     extra_args : {None, Some(<<<<>>>>), Some(<<<<"a", "NUL">>>>),
                   Some(<<Repeat("é", EXTRA_ARG_MAX_LEN \div 2)>>),
                   Some(<<Repeat("é", EXTRA_ARG_MAX_LEN)>>)}
                  \cup {Some(Repeat(<<"a">>, n)) : n \in {EXTRA_ARGS_MAX - 1, EXTRA_ARGS_MAX, EXTRA_ARGS_MAX + 1}}
                  \cup {Some(<<Repeat("a", n)>>) : n \in {EXTRA_ARG_MAX_LEN - 1, EXTRA_ARG_MAX_LEN,
                                                   EXTRA_ARG_MAX_LEN + 1}},
     prompt : {<<"a">>}]

InitBuild ==
    /\ sessions = EmptyTable
    /\ nextId = 0
    /\ tmux = {}
    /\ exitFile = [id \in SessionIds |-> "absent"]
    /\ agentPhase = [id \in SessionIds |-> "none"]
    /\ pane = [id \in SessionIds |-> <<>>]
    /\ mon = MonIdle
    /\ ticks = 0
    /\ create = [pc |-> "idle", id |-> 0, input |-> None, mux_result |-> "none"]
    /\ kill = [pc |-> "idle", id |-> 0]
    /\ emitted = [id \in SessionIds |-> <<>>]
    /\ polls = [id \in SessionIds |-> NoPoll]
    /\ exec = NoExec
    /\ procs = NoProcs
    /\ lock = NoLock
    /\ \E input \in QuotingInputs \cup BoundInputs :
         call = [NoCall EXCEPT !.op = "input", !.arg = input]

\* build_agent_command(session_id, agent, model, extra_args, prompt)
BuildAgentCommand ==
    /\ call.op = "input"
    /\ call' = [call EXCEPT
                  !.op = "build_agent_command",
                  !.ret = build_agent_command_line("orchestra-<uuid>", call.arg.agent,
                                                   call.arg.model, call.arg.extra_args,
                                                   call.arg.prompt)]
    /\ UNCHANGED <<sessions, nextId, tmux, exitFile, agentPhase, pane, mon, ticks,
                   create, kill, emitted, polls, exec, procs, lock>>

NextBuild == BuildAgentCommand

SpecBuild == InitBuild /\ [][NextBuild]_vars

----------------------------------------------------------------------------
(* SpecExec: executors::execute and its five backends.                      *)

\* the longest output, in lines, the read loop is followed for
MaxLines == 2

\* ALLOWED_EXECUTORS
ALLOWED_EXECUTORS == {"claude", "codex", "gemini"}

\* ExecutionBackend, and None for a request without an execution_config
Backends == {"Local", "Docker", "DockerInteractive", "Remote", "Modal"}

\* ExecuteRequest: the executor, the backend and whether a remote config is
\* given; the prompt is the one string "<prompt>"
Requests ==
    [executor : ALLOWED_EXECUTORS \cup {"bash"},
     backend : {None} \cup {Some(b) : b \in Backends},
     remote : BOOLEAN]

\* ExecutionResult and ExecutorError
Done(output) == [kind |-> "Done", output |-> output]
ErrorResult(code) == [kind |-> "Error", code |-> code]
Running == [kind |-> "Running"]
Err(error) == [kind |-> "Err", error |-> error]

\* local.rs build_command_args: args[0]
build_command_args(executor) ==
    CASE executor = "claude" -> <<"claude">>
      [] executor = "codex" -> <<"codex">>
      [] executor = "gemini" -> <<"gemini">>
      [] OTHER -> <<>>

\* docker.rs / remote.rs build_agent_command: the program the command line
\* given to `sh -c` starts; "<prompt>" when the line is the escaped prompt
docker_build_agent_command(executor) ==
    CASE executor = "claude" -> "claude"
      [] executor = "codex" -> "codex"
      [] executor = "gemini" -> "gemini"
      [] OTHER -> "<prompt>"

\* a process spawned by a backend: the program started and the agent program
\* it is told to run
Spawned(program, runs) == [program |-> program, runs |-> runs]

\* the state of one execution
Execution(request, backend) ==
    [pc |-> "start", request |-> request, backend |-> backend, spawned |-> <<>>,
     child |-> "none", exit_code |-> None, stdout |-> "none", output |-> 0,
     status |-> <<>>, kill |-> "none", task |-> "none", ret |-> <<>>]

Returned(e, ret) == [e EXCEPT !.pc = "done", !.ret = <<ret>>]

\* the child is spawned with piped output and the read loop starts
Spawn(e, program, runs) ==
    [e EXCEPT !.pc = "reading", !.spawned = Append(@, Spawned(program, runs)),
              !.child = "running", !.stdout = "open"]

\* Mutant: the local backend starts whatever executor it is given.
execute_local_unvalidated(e, found, spawn_ok) ==
    IF ~found THEN Returned(e, Err("Process"))
    ELSE IF ~spawn_ok THEN Returned(e, Err("Io"))
    ELSE Spawn(e, e.request.executor, e.request.executor)

\* execute_local up to the read loop (local.rs:20-60)
execute_local(e, found, spawn_ok) ==
    IF e.request.executor \notin ALLOWED_EXECUTORS
    THEN Returned(e, Err("InvalidExecutor"))
    ELSE LET args == build_command_args(e.request.executor)
         IN IF ~found THEN Returned(e, Err("Process"))
            ELSE IF ~spawn_ok THEN Returned(e, Err("Io"))
            ELSE Spawn(e, args[1], args[1])

\* execute_docker up to the read loop (docker.rs:23-98)
execute_docker(e, spawn_ok) ==
    IF ~spawn_ok THEN Returned(e, Err("Docker"))
    ELSE Spawn(e, "docker", docker_build_agent_command(e.request.executor))

\* execute_docker_interactive (docker.rs:158-264): `docker run -d` is awaited,
\* the log-polling task is started and Running is returned
execute_docker_interactive(e, spawn_ok, run_ok) ==
    IF ~spawn_ok THEN Returned(e, Err("Docker"))
    ELSE LET started == [e EXCEPT !.spawned =
                            Append(@, Spawned("docker",
                                   docker_build_agent_command(e.request.executor)))]
         IN IF ~run_ok THEN Returned(started, Err("Docker"))
            ELSE Returned([started EXCEPT !.task = "polling"], Running)

\* execute_remote up to the read loop (remote.rs:20-87)
execute_remote(e, spawn_ok) ==
    IF ~e.request.remote THEN Returned(e, Err("Remote"))
    ELSE IF ~spawn_ok THEN Returned(e, Err("Remote"))
    ELSE Spawn(e, "ssh", docker_build_agent_command(e.request.executor))

\* execute_modal up to the read loop (modal.rs:20-85)
execute_modal(e, found, spawn_ok) ==
    IF ~found THEN Returned(e, Err("Modal"))
    ELSE IF ~spawn_ok THEN Returned(e, Err("Modal"))
    ELSE Spawn(e, "modal", e.request.executor)

\* the backend `execute` dispatches to (mod.rs:71-92)
backend_of(request) ==
    IF IsSome(request.backend) /\ Unwrap(request.backend) # "Local"
    THEN Unwrap(request.backend) ELSE "Local"

\* the error kind each backend wraps a failed wait in
WaitError(backend) ==
    CASE backend = "Local" -> "Io"
      [] backend = "Docker" -> "Docker"
      [] backend = "Remote" -> "Remote"
      [] backend = "Modal" -> "Modal"

\* Mutant: any exit is reported as Done.
exit_result_always_done(code, output) == Done(output)

\* match result { Ok(Ok(status)) => ... }: status.success() is exit code 0,
\* status.code().unwrap_or(-1) is -1 for a child ended by a signal
exit_result(code, output) ==
    IF code = Some(0) THEN Done(output)
    ELSE ErrorResult(IF IsSome(code) THEN Unwrap(code) ELSE -1)

\* Mutant: a failed kill is reported instead of the timeout.
timeout_result_reports_kill(backend, kill_ok) ==
    IF kill_ok THEN Err("Timeout") ELSE Err(WaitError(backend))

\* Err(_) => { let _ = child.kill().await; Err(ExecutorError::Timeout) }
timeout_result(backend, kill_ok) == Err("Timeout")

ExecUnchanged ==
    UNCHANGED <<sessions, nextId, tmux, exitFile, agentPhase, pane, mon, ticks,
                create, kill, emitted, polls, call, procs, lock>>

\* execute(request, on_output): the dispatch and the backend up to its read
\* loop or its early return
Execute ==
    /\ exec.pc = "idle"
    /\ \E request \in Requests, found \in BOOLEAN, spawn_ok \in BOOLEAN, run_ok \in BOOLEAN :
         LET backend == backend_of(request)
             e == Execution(request, backend)
         IN exec' = CASE backend = "Local" -> execute_local(e, found, spawn_ok)
                      [] backend = "Docker" -> execute_docker(e, spawn_ok)
                      [] backend = "DockerInteractive" ->
                           execute_docker_interactive(e, spawn_ok, run_ok)
                      [] backend = "Remote" -> execute_remote(e, spawn_ok)
                      [] backend = "Modal" -> execute_modal(e, found, spawn_ok)
    /\ ExecUnchanged

\* line = stdout_reader.next_line() => Ok(Some(line))
ExecReadStdout ==
    /\ exec.pc = "reading" /\ exec.stdout = "open" /\ exec.output < MaxLines
    /\ exec' = [exec EXCEPT !.output = @ + 1]
    /\ ExecUnchanged

\* line = stderr_reader.next_line() => Ok(Some(line))
ExecReadStderr ==
    /\ exec.pc = "reading" /\ exec.output < MaxLines
    /\ exec' = [exec EXCEPT !.output = @ + 1]
    /\ ExecUnchanged

\* stdout gives Ok(None) or an error: break, then child.wait()
ExecStdoutEnds ==
    /\ exec.pc = "reading" /\ exec.stdout = "open"
    /\ exec' = [exec EXCEPT !.pc = "waiting", !.stdout = "eof"]
    /\ ExecUnchanged

\* the child process exits, with a code or on a signal
ChildExits ==
    /\ exec.pc \in {"reading", "waiting"} /\ exec.child = "running"
    /\ \E code \in {Some(0), Some(1), None} :
         exec' = [exec EXCEPT !.child = "exited", !.exit_code = code]
    /\ ExecUnchanged

\* child.wait().await returns and the result is matched
ExecWait ==
    /\ exec.pc = "waiting" /\ exec.child = "exited"
    /\ \E wait_ok \in BOOLEAN :
         exec' = IF wait_ok
                 THEN Returned([exec EXCEPT !.status = <<exec.exit_code>>],
                               exit_result(exec.exit_code, exec.output))
                 ELSE Returned(exec, Err(WaitError(exec.backend)))
    /\ ExecUnchanged

\* the timer of timeout(EXECUTION_TIMEOUT, ..) elapses before the read loop
\* and the wait are through
ExecTimerElapses ==
    /\ exec.pc \in {"reading", "waiting"}
    /\ exec' = [exec EXCEPT !.pc = "timed_out"]
    /\ ExecUnchanged

\* Err(_) => { let _ = child.kill().await; Err(ExecutorError::Timeout) }
ExecKillAfterTimeout ==
    /\ exec.pc = "timed_out"
    /\ \E kill_ok \in BOOLEAN :
         exec' = Returned([exec EXCEPT
                             !.kill = IF kill_ok THEN "ok" ELSE "failed",
                             !.child = IF kill_ok THEN "exited" ELSE @,
                             !.exit_code = IF kill_ok /\ exec.child = "running"
                                           THEN None ELSE @],
                          timeout_result(exec.backend, kill_ok))
    /\ ExecUnchanged

\* the task started by execute_docker_interactive polls the container's logs
\* until the container is no longer running
DockerPollLogs ==
    /\ exec.pc = "done" /\ exec.task = "polling"
    /\ \E is_running \in BOOLEAN :
         exec' = [exec EXCEPT !.task = IF is_running THEN "polling" ELSE "stopped"]
    /\ ExecUnchanged

InitExec ==
    /\ sessions = EmptyTable
    /\ nextId = 0
    /\ tmux = {}
    /\ exitFile = [id \in SessionIds |-> "absent"]
    /\ agentPhase = [id \in SessionIds |-> "none"]
    /\ pane = [id \in SessionIds |-> <<>>]
    /\ mon = MonIdle
    /\ ticks = 0
    /\ create = [pc |-> "idle", id |-> 0, input |-> None, mux_result |-> "none"]
    /\ kill = [pc |-> "idle", id |-> 0]
    /\ emitted = [id \in SessionIds |-> <<>>]
    /\ polls = [id \in SessionIds |-> NoPoll]
    /\ call = NoCall
    /\ exec = NoExec
    /\ procs = NoProcs
    /\ lock = NoLock

NextExec ==
    \/ Execute
    \/ ExecReadStdout
    \/ ExecReadStderr
    \/ ExecStdoutEnds
    \/ ChildExits
    \/ ExecWait
    \/ ExecTimerElapses
    \/ ExecKillAfterTimeout
    \/ DockerPollLogs

SpecExec == InitExec /\ [][NextExec]_vars

----------------------------------------------------------------------------
(* SpecChecks: run_single_check on one check and one world.                 *)

\* the largest max_retries a check is given
MaxRetriesGiven == 12

\* the latest attempt at which a check first passes
MaxPassesAt == 12

\* the checks with retry options, and the human-approval check
CheckInputs ==
    {Check(type, auto_retry, max_retries) :
        type \in {"file_exists", "command", "contains", "test_runner"},
        auto_retry \in {None, Some(FALSE), Some(TRUE)},
        max_retries \in {None} \cup {Some(n) : n \in 0..MaxRetriesGiven}}
    \cup {HumanApproval}

InitChecks ==
    /\ sessions = EmptyTable
    /\ nextId = 0
    /\ tmux = {}
    /\ exitFile = [id \in SessionIds |-> "absent"]
    /\ agentPhase = [id \in SessionIds |-> "none"]
    /\ pane = [id \in SessionIds |-> <<>>]
    /\ mon = MonIdle
    /\ ticks = 0
    /\ create = [pc |-> "idle", id |-> 0, input |-> None, mux_result |-> "none"]
    /\ kill = [pc |-> "idle", id |-> 0]
    /\ emitted = [id \in SessionIds |-> <<>>]
    /\ polls = [id \in SessionIds |-> NoPoll]
    /\ exec = NoExec
    /\ procs = NoProcs
    /\ lock = NoLock
    /\ \E check \in CheckInputs, passes_at \in 0..MaxPassesAt :
         call = [NoCall EXCEPT !.op = "input",
                               !.arg = [check |-> check, passes_at |-> passes_at]]

\* run_single_check(check, cwd)
RunSingleCheck ==
    /\ call.op = "input"
    /\ call' = [call EXCEPT !.op = "run_single_check",
                            !.ret = run_single_check(call.arg.check, call.arg.passes_at)]
    /\ UNCHANGED <<sessions, nextId, tmux, exitFile, agentPhase, pane, mon, ticks,
                   create, kill, emitted, polls, exec, procs, lock>>

NextChecks == RunSingleCheck

SpecChecks == InitChecks /\ [][NextChecks]_vars

----------------------------------------------------------------------------
(* SpecTmux: the functions of sessions/tmux.rs against one environment.     *)

\* send_keys: const CHUNK_CHARS
CHUNK_CHARS == 2000

\* the environment of a call: whether tmux is on PATH, whether the session
\* exists, the cwd given to create_session and the number of characters given
\* to send_keys
TmuxEnvs ==
    [installed : BOOLEAN, session : BOOLEAN, cwd : BOOLEAN,
     keys : {0, 1, CHUNK_CHARS + 1}]

\* TmuxError("tmux is not installed or not on PATH")
NotInstalled == [kind |-> "Err", error |-> "tmux is not installed or not on PATH"]

\* TmuxError(e.to_string()) of a tmux process that could not be started
SpawnFailed == [kind |-> "Err", error |-> "spawn"]

\* TmuxError(stderr) of a tmux process that exited with a failure
CommandFailed == [kind |-> "Err", error |-> "stderr"]

Ok(value) == [kind |-> "Ok", value |-> value]

\* the plain bool session_exists returns
Bool(value) == [kind |-> "bool", value |-> value]

\* the result of a function and the number of tmux processes it ran
TmuxOutcome(ret, runs) == [ret |-> ret, runs |-> runs]

\* is_available
is_available(env) == env.installed

\* Command::new("tmux")...output(): Err when tmux cannot be started
tmux_output(env, succeeds) ==
    IF ~env.installed THEN SpawnFailed
    ELSE IF ~succeeds THEN CommandFailed
    ELSE Ok(TRUE)

\* create_session
tmux_create_session(env) ==
    IF ~is_available(env) THEN TmuxOutcome(NotInstalled, 0)
    ELSE TmuxOutcome(tmux_output(env, ~env.session), 1)

\* session_exists: .status().map(|s| s.success()).unwrap_or(false)
tmux_session_exists(env) ==
    IF ~env.installed THEN TmuxOutcome(Bool(FALSE), 0)
    ELSE TmuxOutcome(Bool(env.session), 1)

\* capture_pane
tmux_capture_pane(env) ==
    IF ~is_available(env) THEN TmuxOutcome(NotInstalled, 0)
    ELSE TmuxOutcome(tmux_output(env, env.session), 1)

\* send_keys: one tmux process for each chunk of CHUNK_CHARS characters, up to
\* the first that fails, then one for Enter
tmux_send_keys(env) ==
    LET chunks == (env.keys + CHUNK_CHARS - 1) \div CHUNK_CHARS
    IN IF ~is_available(env) THEN TmuxOutcome(NotInstalled, 0)
       ELSE IF ~env.session THEN TmuxOutcome(CommandFailed, 1)
       ELSE TmuxOutcome(Ok(TRUE), chunks + 1)

\* kill_session
tmux_kill_session(env) ==
    IF ~is_available(env) THEN TmuxOutcome(NotInstalled, 0)
    ELSE TmuxOutcome(tmux_output(env, env.session), 1)

InitTmux ==
    /\ sessions = EmptyTable
    /\ nextId = 0
    /\ tmux = {}
    /\ exitFile = [id \in SessionIds |-> "absent"]
    /\ agentPhase = [id \in SessionIds |-> "none"]
    /\ pane = [id \in SessionIds |-> <<>>]
    /\ mon = MonIdle
    /\ ticks = 0
    /\ create = [pc |-> "idle", id |-> 0, input |-> None, mux_result |-> "none"]
    /\ kill = [pc |-> "idle", id |-> 0]
    /\ emitted = [id \in SessionIds |-> <<>>]
    /\ polls = [id \in SessionIds |-> NoPoll]
    /\ exec = NoExec
    /\ procs = NoProcs
    /\ lock = NoLock
    /\ \E env \in TmuxEnvs : call = [NoCall EXCEPT !.op = "input", !.arg = env]

TmuxCall(op, outcome) ==
    /\ call.op = "input"
    /\ call' = [call EXCEPT !.op = op, !.ret = outcome]
    /\ UNCHANGED <<sessions, nextId, tmux, exitFile, agentPhase, pane, mon, ticks,
                   create, kill, emitted, polls, exec, procs, lock>>

TmuxCreateSession == TmuxCall("create_session", tmux_create_session(call.arg))
TmuxSessionExists == TmuxCall("session_exists", tmux_session_exists(call.arg))
TmuxCapturePane == TmuxCall("capture_pane", tmux_capture_pane(call.arg))
TmuxSendKeys == TmuxCall("send_keys", tmux_send_keys(call.arg))
TmuxKillSession == TmuxCall("kill_session", tmux_kill_session(call.arg))

NextTmux ==
    \/ TmuxCreateSession
    \/ TmuxSessionExists
    \/ TmuxCapturePane
    \/ TmuxSendKeys
    \/ TmuxKillSession

SpecTmux == InitTmux /\ [][NextTmux]_vars

----------------------------------------------------------------------------
(* SpecDetect: detect_input_waiting on one captured output and one agent.   *)

\* the number of trailing lines of the output that are drawn freely
MaxTail == 3

Tails == UNION {[1..n -> LineKinds] : n \in 0..MaxTail}

\* nothing, or one marked line followed by plain lines that move it to the
\* edge of the last 15 or of the last 5 lines
Heads ==
    {<<>>}
    \cup {<<line>> \o [i \in 1..n |-> "text"] :
            line \in {"q", "yn", "choice"},
            n \in {QUESTION_LINES - MaxTail, RECENT_LINES - MaxTail}}

\* the blank rows of the pane below the last line written
Blanks == {[i \in 1..n |-> "blank"] : n \in {0, QUESTION_LINES - 1, QUESTION_LINES}}

DetectInputs ==
    [output : {head \o tail \o blanks :
                  head \in Heads, tail \in Tails, blanks \in Blanks},
     agent : {"claude", "codex", "gemini"}]

InitDetect ==
    /\ sessions = EmptyTable
    /\ nextId = 0
    /\ tmux = {}
    /\ exitFile = [id \in SessionIds |-> "absent"]
    /\ agentPhase = [id \in SessionIds |-> "none"]
    /\ pane = [id \in SessionIds |-> <<>>]
    /\ mon = MonIdle
    /\ ticks = 0
    /\ create = [pc |-> "idle", id |-> 0, input |-> None, mux_result |-> "none"]
    /\ kill = [pc |-> "idle", id |-> 0]
    /\ emitted = [id \in SessionIds |-> <<>>]
    /\ polls = [id \in SessionIds |-> NoPoll]
    /\ exec = NoExec
    /\ procs = NoProcs
    /\ lock = NoLock
    /\ \E input \in DetectInputs :
         call = [NoCall EXCEPT !.op = "input", !.arg = input]

\* detect_input_waiting(output, agent)
DetectInputWaiting ==
    /\ call.op = "input"
    /\ call' = [call EXCEPT !.op = "detect_input_waiting",
                            !.ret = detect_input_waiting(call.arg.output, call.arg.agent)]
    /\ UNCHANGED <<sessions, nextId, tmux, exitFile, agentPhase, pane, mon, ticks,
                   create, kill, emitted, polls, exec, procs, lock>>

NextDetect == DetectInputWaiting

SpecDetect == InitDetect /\ [][NextDetect]_vars

----------------------------------------------------------------------------
(* Claims *)

TerminalStatus == {"Completed", "Failed"}

NumCompleted(log, id) == Len(SelectSeq(log[id], LAMBDA e : e.kind = "completed"))

\* C1: over any sequence of Monitor ticks at most one completion event is
\* emitted per session, also when the sentinel file is still there on a
\* later tick because its deletion failed.
C1_AtMostOneCompletionEvent ==
    \A id \in SessionIds : NumCompleted(emitted, id) <= 1

\* C1 witness: a later tick has just listed the sessions and skipped one
\* whose completion was reported and whose sentinel file is still present.
C1_Witness ==
    \E id \in DOMAIN sessions :
        /\ NumCompleted(emitted, id) = 1
        /\ exit_file_exists(exitFile[id])
        /\ sessions[id].status = "Completed"
        /\ mon.pc = "next" /\ mon.cur = 0 /\ mon.queue = {}
        /\ ticks >= 2

\* C2: once a session is Completed or Failed, its status and exit code stay
\* as they are for as long as the record is in the table (so it never goes
\* back to Running or AwaitingInput).
C2_TerminalStatusIsFinal ==
    [][\A id \in DOMAIN sessions :
          (sessions[id].status \in TerminalStatus /\ id \in DOMAIN sessions')
          => /\ sessions'[id].status = sessions[id].status
             /\ sessions'[id].exit_code = sessions[id].exit_code]_vars

\* C2 witness: a Failed session (unparsable sentinel, still on disk, tmux
\* session alive) after the Monitor has finished another tick.
C2_Witness ==
    \E id \in DOMAIN sessions :
        /\ sessions[id].status = "Failed"
        /\ sessions[id].exit_code = Some(-1)
        /\ exitFile[id] \in ExitContents
        /\ id \in tmux
        /\ mon.pc = "sleep"
        /\ ticks >= 3

\* the kill command in flight (or last returned) has killed the tmux session
KilledByCommand(id) == kill.id = id /\ kill.pc \in {"remove", "ok"}

\* C3: once kill_session has killed the tmux session of a session, the
\* Monitor emits no completion event for that session.
C3_NoCompletionEventAfterKill ==
    [][\A id \in SessionIds :
          KilledByCommand(id) => NumCompleted(emitted', id) = NumCompleted(emitted, id)]_vars

\* C4: kill_session removes the record only after tmux::kill_session has
\* succeeded; when it fails the call returns the error and neither the
\* table nor the tmux session is touched.
C4_KillRemovesOnlyAfterSuccess ==
    [][kill' # kill =>
         /\ kill'.pc = "err" => (sessions' = sessions /\ tmux' = tmux)
         /\ kill'.pc = "remove" =>
               /\ sessions' = sessions
               /\ kill'.id \in tmux /\ kill'.id \notin tmux'
         /\ kill'.pc = "ok" =>
               /\ kill.pc = "remove" /\ kill'.id = kill.id
               /\ kill.id \notin tmux
               /\ sessions' = remove_session(sessions, kill.id)]_vars

\* C4 witness: a kill has failed, the record and the tmux session are both
\* still there, so the kill can be retried.
C4_Witness ==
    /\ kill.pc = "err"
    /\ kill.id \in DOMAIN sessions
    /\ kill.id \in tmux

\* the record the claim describes for a new session
IsFreshRecord(r) ==
    /\ r.status = "Running"
    /\ r.stale_poll_count = 0
    /\ r.last_output_hash = None
    /\ r.exit_code = None
    /\ r.detected_question = None

\* C5: when create_session succeeds, the table holds under the new id a
\* record with status Running, counter 0, no hash, no exit code and no
\* question, and every other record is as it was.
C5_CreateInsertsRunningRecord ==
    [][(call'.op = "create_session" /\ IsSome(call'.ret)) =>
         /\ call'.id \notin DOMAIN sessions
         /\ DOMAIN sessions' = DOMAIN sessions \cup {call'.id}
         /\ IsFreshRecord(sessions'[call'.id])
         /\ Unwrap(call'.ret) = sessions'[call'.id]
         /\ \A other \in DOMAIN sessions : sessions'[other] = sessions[other]]_vars

\* C5 witness: a create has succeeded while another session, already
\* Failed with a counter of 2, was in the table.
C5_Witness ==
    /\ call.op = "create_session" /\ IsSome(call.ret)
    /\ \E other \in DOMAIN sessions :
          /\ other # call.id
          /\ sessions[other].status = "Failed"
          /\ sessions[other].stale_poll_count = 2

\* what the claim calls a valid input of create_session
AllowList == {"claude", "codex", "gemini"}

ValidModel(m) == m.len >= 1 /\ m.len <= 128 /\ m.charset_ok

ValidExtraArgs(args) ==
    /\ Len(args) <= 64
    /\ \A i \in 1..Len(args) : args[i].len >= 1 /\ args[i].len <= 1024 /\ ~args[i].has_nul

ValidCreateInput(input) ==
    /\ input.agent \in AllowList
    /\ IsSome(input.model) => ValidModel(Unwrap(input.model))
    /\ IsSome(input.extra_args) => ValidExtraArgs(Unwrap(input.extra_args))

\* C6: a create_session whose input fails validation ends in an error
\* without any tmux call, a create_session whose tmux call fails ends in an
\* error too, and no step of a failing create changes the session table.
C6_FailedCreateChangesNothing ==
    /\ [](create.pc # "idle" =>
            /\ ~ValidCreateInput(Unwrap(create.input)) =>
                  /\ create.pc = "err"
                  /\ create.mux_result = "none"
                  /\ create.id \notin tmux
            /\ create.mux_result = "failed" =>
                  /\ create.pc = "err"
                  /\ create.id \notin tmux
                  /\ create.id \notin DOMAIN sessions)
    /\ [][(create' # create /\ create'.pc = "err") => sessions' = sessions]_vars

\* C6 witness: a create with an agent outside the allow-list has returned
\* its error while a session was being tracked.
C6_Witness ==
    /\ create.pc = "err"
    /\ Unwrap(create.input).agent \notin AllowList
    /\ DOMAIN sessions # {}

\* a call of update_staleness(id, h) with the stored hash equal to h
StaleCall(c) ==
    /\ c.op = "update_staleness"
    /\ IsSome(c.before)
    /\ Unwrap(c.before).last_output_hash = Some(c.arg)

\* C7: update_staleness(id, h) on a tracked session whose stored hash is h
\* adds exactly 1 to the counter, returns the new counter and leaves the
\* status, the hash and the question as they were; a second such call in a
\* row brings the counter to 2 above its value before the first.
C7_StalePollIncrementsByOne ==
    [][(call'.op = "update_staleness"
        /\ call'.id \in DOMAIN sessions
        /\ sessions[call'.id].last_output_hash = Some(call'.arg)) =>
         LET id == call'.id
             old == sessions[id]
             new == sessions'[id]
         IN /\ DOMAIN sessions' = DOMAIN sessions
            /\ new.stale_poll_count = old.stale_poll_count + 1
            /\ new.status = old.status
            /\ new.last_output_hash = old.last_output_hash
            /\ new.detected_question = old.detected_question
            /\ IsSome(call'.ret)
            /\ Unwrap(call'.ret).stale_count = new.stale_poll_count
            /\ (StaleCall(call) /\ call.id = id /\ call.arg = call'.arg) =>
                  new.stale_poll_count = Unwrap(call.before).stale_poll_count + 2]_vars

\* C7 witness: the second of two stale polls in a row, on an AwaitingInput
\* session that carries a question.
C7_Witness ==
    /\ StaleCall(call)
    /\ Unwrap(call.before).stale_poll_count = 1
    /\ call.id \in DOMAIN sessions
    /\ sessions[call.id].stale_poll_count = 2
    /\ sessions[call.id].status = "AwaitingInput"
    /\ sessions[call.id].detected_question = Some("q")

\* C8: update_staleness(id, h) on a tracked session whose stored hash is
\* not h resets the counter to 0 and stores h; it reports cleared = true,
\* sets the status to Running and drops the question exactly when the
\* status was AwaitingInput, and otherwise leaves status and question; on
\* an id that is not tracked it returns None and changes nothing.
C8_ChangedOutputResets ==
    [][call'.op = "update_staleness" =>
         IF call'.id \notin DOMAIN sessions
         THEN call'.ret = None /\ sessions' = sessions
         ELSE sessions[call'.id].last_output_hash # Some(call'.arg) =>
                LET id == call'.id
                    old == sessions[id]
                    new == sessions'[id]
                    was_awaiting == old.status = "AwaitingInput"
                IN /\ DOMAIN sessions' = DOMAIN sessions
                   /\ new.stale_poll_count = 0
                   /\ new.last_output_hash = Some(call'.arg)
                   /\ IsSome(call'.ret)
                   /\ Unwrap(call'.ret).cleared_awaiting_input = was_awaiting
                   /\ Unwrap(call'.ret).stale_count = 0
                   /\ new.status = IF was_awaiting THEN "Running" ELSE old.status
                   /\ new.detected_question =
                         IF was_awaiting THEN None ELSE old.detected_question]_vars

\* C8 witness: a new hash has put an AwaitingInput session with a question
\* and a counter of 2 back to Running.
C8_Witness ==
    /\ call.op = "update_staleness"
    /\ IsSome(call.before)
    /\ Unwrap(call.before).status = "AwaitingInput"
    /\ Unwrap(call.before).detected_question = Some("q")
    /\ Unwrap(call.before).stale_poll_count = 2
    /\ Unwrap(call.before).last_output_hash # Some(call.arg)
    /\ IsSome(call.ret) /\ Unwrap(call.ret).cleared_awaiting_input
    /\ sessions[call.id].status = "Running"

\* C9: mark_awaiting_input on a session that is already AwaitingInput
\* changes nothing; a call without a question does not erase the question
\* an earlier call stored.
C9_MarkAwaitingInputIdempotent ==
    [][(call'.op = "mark_awaiting_input"
        /\ call'.id \in DOMAIN sessions
        /\ sessions[call'.id].status = "AwaitingInput") => sessions' = sessions]_vars

\* C9 witness: mark_awaiting_input without a question was called on a
\* session that was AwaitingInput with a question, which it still carries.
C9_Witness ==
    /\ call.op = "mark_awaiting_input"
    /\ call.arg = None
    /\ IsSome(call.before)
    /\ Unwrap(call.before).status = "AwaitingInput"
    /\ Unwrap(call.before).detected_question = Some("q")
    /\ sessions[call.id].detected_question = Some("q")

\* C10: mark_completed(id, code) on a tracked session makes it Completed
\* when code is 0 and Failed otherwise, records the code and touches no
\* other record; on an id that is not tracked it changes nothing.
C10_MarkCompletedSetsStatus ==
    [][call'.op = "mark_completed" =>
         IF call'.id \notin DOMAIN sessions
         THEN sessions' = sessions
         ELSE /\ DOMAIN sessions' = DOMAIN sessions
              /\ sessions'[call'.id].status = "Completed" <=> call'.arg = 0
              /\ sessions'[call'.id].status = "Failed" <=> call'.arg # 0
              /\ sessions'[call'.id].exit_code = Some(call'.arg)
              /\ \A other \in DOMAIN sessions \ {call'.id} :
                    sessions'[other] = sessions[other]]_vars

\* C10 witness: mark_completed with a non-zero code on an AwaitingInput
\* session, with a second session in the table.
C10_Witness ==
    /\ call.op = "mark_completed"
    /\ call.arg # 0
    /\ IsSome(call.before)
    /\ Unwrap(call.before).status = "AwaitingInput"
    /\ sessions[call.id].status = "Failed"
    /\ Cardinality(DOMAIN sessions) = 2

\* the events of one kind logged for a session
NumEvents(log, id, kind) == Len(SelectSeq(log[id], LAMBDA e : e.kind = kind))

\* C11: a session becomes AwaitingInput, and an awaiting-input event is
\* emitted for it, only by the Monitor's step on that session in a tick in
\* which the session was Running, the poll read the same output as the two
\* polls before it (the counter has reached 2) and the heuristic classifies
\* that output as waiting; no other step takes a session to AwaitingInput.
C11_AwaitingOnlyWhenStaleAndDetected ==
    [][\A id \in SessionIds :
         LET becomes == /\ id \in DOMAIN sessions'
                        /\ sessions'[id].status = "AwaitingInput"
                        /\ ~(id \in DOMAIN sessions
                             /\ sessions[id].status = "AwaitingInput")
             announces == NumEvents(emitted', id, "awaiting_input")
                            # NumEvents(emitted, id, "awaiting_input")
         IN (becomes \/ announces) =>
              /\ mon.pc = "mark_awaiting" /\ mon.cur = id
              /\ polls[id].last = mon.output
              /\ polls[id].run >= 3
              /\ detect_input_waiting(mon.output, mon.agent).waiting_for_input
              /\ id \in DOMAIN sessions => sessions[id].status = "Running"
              /\ id \in DOMAIN sessions =>
                    /\ sessions[id].stale_poll_count >= 2
                    /\ sessions[id].last_output_hash = Some(hash_output(mon.output))
              /\ becomes => id \in DOMAIN sessions
              /\ becomes => announces]_vars

\* C11 witness: a session is AwaitingInput with its question after three
\* polls in a row read the same asking window, and the event is logged.
C11_Witness ==
    \E id \in DOMAIN sessions :
        /\ sessions[id].status = "AwaitingInput"
        /\ IsSome(sessions[id].detected_question)
        /\ polls[id].run >= 3 /\ polls[id].last = AskWindow
        /\ NumEvents(emitted, id, "awaiting_input") = 1

\* the event a step has just logged for a session
LastEvent(log, id) == log[id][Len(log[id])]

\* a step of the Monitor logs a completion event for the session
EmitsCompleted(id) == NumCompleted(emitted', id) = NumCompleted(emitted, id) + 1

\* the status a session has in a table, "none" when it is not tracked
StatusOf(tbl, id) == IF id \in DOMAIN tbl THEN tbl[id].status ELSE "none"

\* C12 (the success part, and the status of a session that is tracked):
\* every completion event of the sentinel path carries the exit code read
\* from the sentinel (-1 when it does not parse), has success exactly when
\* that code is 0 and all checks passed, and a session still in the table
\* is then Completed when the code is 0 and Failed otherwise.
C12_SuccessOfSentinelPath ==
    [][\A id \in SessionIds :
         /\ (mon.pc = "read" /\ mon.cur = id /\ mon' # mon) =>
               mon'.exit_code = (CASE exitFile[id] = "0" -> 0
                                   [] exitFile[id] = "1" -> 1
                                   [] OTHER -> -1)
         /\ (mon.pc = "emit" /\ EmitsCompleted(id)) =>
               LET e == LastEvent(emitted', id)
               IN /\ e.exit_code = mon.exit_code
                  /\ e.success <=> (e.exit_code = 0 /\ e.all_checks_passed)
                  /\ e.all_checks_passed =>
                        \A i \in 1..Len(e.check_results) : e.check_results[i].passed
                  /\ id \in DOMAIN sessions =>
                        /\ sessions[id].status =
                              IF e.exit_code = 0 THEN "Completed" ELSE "Failed"
                        /\ sessions[id].exit_code = Some(e.exit_code)]_vars

\* C12: for every completion event the Monitor emits on the sentinel path,
\* success holds iff the exit code read from the sentinel is 0 and every
\* check passed, and the session's status is Completed iff that exit code
\* is 0.
C12_SuccessAndStatusOfSentinelPath ==
    [][\A id \in SessionIds :
         (mon.pc = "emit" /\ EmitsCompleted(id)) =>
            LET e == LastEvent(emitted', id)
            IN /\ e.success <=> (e.exit_code = 0 /\ e.all_checks_passed)
               /\ StatusOf(sessions, id) = "Completed" <=> e.exit_code = 0]_vars

\* some check of the node is a human-approval check
HasHumanApproval(checks) == \E i \in 1..Len(checks) : checks[i].type = "human_approval"

\* C13: a human-approval check is run once and does not pass, and every
\* completion event emitted for a session whose node's checks include a
\* human-approval check has all_checks_passed = false and success = false,
\* on the sentinel path and on the death path, whatever the exit code.
C13_HumanApprovalNeverPasses ==
    /\ [](\A i \in 1..Len(mon.check_runs) :
            mon.check_runs[i].check_type = "human_approval" =>
               /\ ~mon.check_runs[i].passed
               /\ mon.check_runs[i].runs = 1)
    /\ [][\A id \in SessionIds :
            (EmitsCompleted(id) /\ HasHumanApproval(mon.node_checks)) =>
               /\ ~LastEvent(emitted', id).all_checks_passed
               /\ ~LastEvent(emitted', id).success]_vars

\* C13 witness: a session whose agent exited with code 0 and whose other
\* check passed (at its second run) is reported as not successful because of
\* the human-approval check.
C13_Witness ==
    \E id \in SessionIds :
        /\ NumCompleted(emitted, id) = 1
        /\ LastEvent(emitted, id).kind = "completed"
        /\ LastEvent(emitted, id).exit_code = 0
        /\ LastEvent(emitted, id).check_results =
              <<[check_type |-> "file_exists", passed |-> TRUE],
                [check_type |-> "human_approval", passed |-> FALSE]>>
        /\ ~LastEvent(emitted, id).success
        /\ StatusOf(sessions, id) = "Completed"

\* C14: the completion event of a session whose tmux session is gone and
\* that has no sentinel file has success = false.
C14_DeadSessionReportedAsFailure ==
    [][\A id \in SessionIds :
         (mon.pc = "dead_emit" /\ EmitsCompleted(id)) =>
            ~LastEvent(emitted', id).success]_vars

LoopPositions ==
    {"next", "read", "mark", "emit", "delete", "exists", "dead_emit", "dead_remove",
     "capture", "staleness", "mark_awaiting"}

\* C16: whatever fails while the Monitor handles one session (the pane
\* capture, the check-runner task, an event emission, the notification,
\* the deletion of the sentinel file), the Monitor stays in its loop and
\* can take its next step, the sessions still to be handled in the tick are
\* kept and every one of them is handled before the tick ends; a failed
\* check-runner task gives a completion event with no check results,
\* all_checks_passed = false and success = false.
C16_MonitorNeverHalts ==
    /\ [](mon.pc = "sleep" \/ (mon.pc \in LoopPositions /\ ENABLED MonitorStep))
    /\ [][mon' # mon =>
            /\ mon.pc \in LoopPositions \ {"next"} =>
                  /\ mon'.queue = mon.queue
                  /\ mon'.pc = "next" \/ mon'.cur = mon.cur
            /\ mon.pc = "next" =>
                  IF mon.queue = {} THEN mon'.pc = "sleep"
                  ELSE \E s \in mon.queue :
                         mon'.cur = s.id /\ mon'.queue = mon.queue \ {s}
            /\ (mon.pc \in {"emit", "dead_emit"} /\ ~mon.checks_ran) =>
                  /\ EmitsCompleted(mon.cur)
                  /\ LastEvent(emitted', mon.cur).check_results = <<>>
                  /\ ~LastEvent(emitted', mon.cur).all_checks_passed
                  /\ ~LastEvent(emitted', mon.cur).success]_vars

\* C16 witness: in the first tick the check-runner task of session 1
\* failed, its completion event could not be emitted and its sentinel file
\* could not be deleted; the Monitor is now handling session 2, whose pane
\* capture fails.
C16_Witness ==
    /\ ticks = 1
    /\ NumCompleted(emitted, 1) = 1
    /\ ~LastEvent(emitted, 1).delivered
    /\ LastEvent(emitted, 1).exit_code = 0
    /\ LastEvent(emitted, 1).check_results = <<>>
    /\ ~LastEvent(emitted, 1).success
    /\ exit_file_exists(exitFile[1])
    /\ mon.cur = 2 /\ mon.pc = "next" /\ mon.output = <<>> /\ 2 \in tmux
    /\ sessions[2].status = "Running"

\* the commands that take a session id
IdCommands ==
    {"attach_session", "send_session_input", "capture_session_output",
     "kill_interactive_session", "get_attach_command", "open_in_ghostty"}

\* the characters the claim allows in a session id
IdCharOk(c) == is_alphanumeric(c) \/ c = "-" \/ c = "_"

\* what the claim accepts: the prefix, the character set, and at most 128
\* characters
AcceptedId(s) ==
    /\ Len(s) >= 10 /\ SubSeq(s, 1, 10) = Prefix
    /\ \A i \in 1..Len(s) : IdCharOk(s[i])
    /\ Len(s) <= 128

\* C17: validate_session_id (seen through get_attach_command, which returns
\* Ok exactly when the validation does) accepts a string iff it begins with
\* "orchestra-", each of its characters is an alphanumeric, '-' or '_', and
\* it has at most 128 characters; every other string is rejected.
C17_ValidateSessionIdAcceptsIff ==
    call.op = "get_attach_command" =>
       ((Unwrap(call.ret).result = "Ok") <=> AcceptedId(call.id))

\* C17, restricted to ASCII strings: there the claim's condition and the
\* result of validate_session_id agree.
C17_ValidateSessionIdAscii ==
    (call.op = "get_attach_command"
     /\ \A i \in 1..Len(call.id) : call.id[i] \notin NonAsciiAlphabetic) =>
       ((Unwrap(call.ret).result = "Ok") <=> AcceptedId(call.id))

\* C18: each of attach, send input, capture output, kill, get attach
\* command and open in terminal, called with an id that the validation
\* rejects (every id without the prefix, with a character outside the set
\* or longer than 128 among them), returns an error, has made no tmux call,
\* and leaves the session table and the tmux server as they were.
C18_InvalidIdTouchesNothing ==
    [][(call' # call /\ call'.op \in IdCommands
        /\ (validate_session_id(call'.id) # "Ok" \/ ~AcceptedId(call'.id))) =>
          /\ Unwrap(call'.ret).result = "Err"
          /\ Unwrap(call'.ret).mux_calls = <<>>
          /\ sessions' = sessions
          /\ tmux' = tmux]_vars

\* C18 witness: a kill aimed at a tmux session of the user that is not one
\* of the application's has returned an error; that session and the
\* tracked one are both still there.
C18_Witness ==
    /\ call.op = "kill_interactive_session"
    /\ call.id = ForeignId
    /\ call.arg = TRUE
    /\ Unwrap(call.ret).result = "Err"
    /\ ForeignId \in tmux
    /\ TrackedId \in DOMAIN sessions

\* the program the shell is to start for an agent
AgentProgram(agent) ==
    CASE agent = "Claude" -> <<"claude">>
      [] agent = "Codex" -> <<"codex">>
      [] agent = "Gemini" -> <<"gemini">>

Words(cmd) == {cmd[i] : i \in 1..Len(cmd)}

\* C19: whatever the prompt, the model and the extra arguments contain, the
\* shell reads the rendered command line as five commands, the second of which
\* is the agent's: its program is the allow-listed binary of the agent, every
\* argument after the program name is rendered as one single-quoted segment in
\* which each quote is '\'' , the shell gets the model, each extra argument and
\* the trimmed prompt back as single words, reads no character of them
\* unquoted, never expands anything and never splits a word or a command on a
\* character of the input.
C19_ShellQuoting ==
    (call.op = "build_agent_command" /\ call.arg \in QuotingInputs /\ IsSome(call.ret))
    => LET in == call.arg
           args == IF IsSome(in.extra_args) THEN Unwrap(in.extra_args) ELSE <<>>
           p == sh_parse(Unwrap(call.ret))
           agent_cmd == p.cmds[2]
       IN /\ p.closed
          /\ ~p.expands
          /\ p.bare = <<"mkdir", "-p", "/tmp/orchestra-sessions">>
                        \o AgentProgram(in.agent)
                        \o <<"echo", "$?", ">", "echo", "exec", "${SHELL:-/bin/bash}">>
          /\ Len(p.cmds) = 5
          /\ p.cmds[1] = <<<<"mkdir">>, <<"-p">>, <<"/tmp/orchestra-sessions">>>>
          /\ p.cmds[3][1] = <<"echo">>
          /\ p.cmds[5] = <<<<"exec">>, <<"${SHELL:-/bin/bash}">>>>
          /\ agent_cmd[1] = AgentProgram(in.agent)
          /\ agent_cmd[1] \in {<<"claude">>, <<"codex">>, <<"gemini">>}
          /\ IsSome(in.model) => Unwrap(in.model) \in Words(agent_cmd)
          /\ \A i \in 1..Len(args) : args[i] \in Words(agent_cmd)
          /\ trim(in.prompt) # <<>> => agent_cmd[Len(agent_cmd)] = trim(in.prompt)
          /\ Len(agent_cmd) =
                 1 + (IF in.agent = "Claude" THEN 2 ELSE 0)
                   + (IF IsSome(in.model) THEN 2 ELSE 0) + Len(args)
                   + (IF trim(in.prompt) = <<>> THEN 0
                      ELSE IF in.agent = "Gemini" THEN 2 ELSE 1)

\* a command was rendered for a prompt with a quote, a separator and an expansion
C19_Witness ==
    /\ call.op = "build_agent_command"
    /\ call.arg \in QuotingInputs
    /\ IsSome(call.ret)
    /\ IsSome(call.arg.extra_args)
    /\ Len(Unwrap(call.arg.extra_args)) = 2
    /\ call.arg.prompt = <<"'", ";", "$">>

\* what the builder was called with
BuildModel == call.arg.model
BuildArgs == IF IsSome(call.arg.extra_args) THEN Unwrap(call.arg.extra_args) ELSE <<>>
BuildRejected == ~IsSome(call.ret)

ModelCharOk(c) == c \in AsciiAlphanumeric \cup {".", "_", "-", ":", "/"}

\* the length of a string in the unit named: "bytes" of UTF-8 or "chars"
LengthIn(unit, str) == IF unit = "bytes" THEN str_len(str) ELSE Len(str)

\* the model, the list or an argument is one the builder is said to reject,
\* with lengths measured in the unit
Rejectable(unit) ==
    \/ /\ IsSome(BuildModel)
       /\ LET m == Unwrap(BuildModel)
          IN \/ LengthIn(unit, m) = 0
             \/ LengthIn(unit, m) > MODEL_MAX_LEN
             \/ \E i \in 1..Len(m) : ~ModelCharOk(m[i])
    \/ Len(BuildArgs) > EXTRA_ARGS_MAX
    \/ \E i \in 1..Len(BuildArgs) :
          \/ LengthIn(unit, BuildArgs[i]) = 0
          \/ LengthIn(unit, BuildArgs[i]) > EXTRA_ARG_MAX_LEN
          \/ \E j \in 1..Len(BuildArgs[i]) : BuildArgs[i][j] = "NUL"

\* the model, the list or an argument is exactly at its bound
AtBound(unit) ==
    \/ IsSome(BuildModel) /\ LengthIn(unit, Unwrap(BuildModel)) = MODEL_MAX_LEN
    \/ Len(BuildArgs) = EXTRA_ARGS_MAX
    \/ \E i \in 1..Len(BuildArgs) : LengthIn(unit, BuildArgs[i]) = EXTRA_ARG_MAX_LEN

\* C20 as stated, lengths in characters: the builder rejects an empty, too
\* long or ill-formed model, more than 64 extra arguments and an empty, too
\* long or NUL-carrying argument, and accepts inputs exactly at the bounds of
\* 128 characters, 64 entries and 1024 characters.
C20_RejectsWithLengthsInCharacters ==
    call.op = "build_agent_command"
    => /\ Rejectable("chars") => BuildRejected
       /\ (AtBound("chars") /\ ~Rejectable("chars")) => ~BuildRejected

\* C20 (amended), lengths in bytes of UTF-8: the builder rejects, without a
\* command, an empty model, one of more than 128 bytes or with a character
\* outside ASCII alphanumerics and . _ - : / , a list of more than 64 extra
\* arguments, and an argument that is empty, longer than 1024 bytes or holds
\* NUL; inputs exactly at the bounds of 128 bytes, 64 entries and 1024 bytes
\* are accepted.
C20_RejectsWithLengthsInBytes ==
    call.op = "build_agent_command"
    => /\ Rejectable("bytes") => BuildRejected
       /\ (AtBound("bytes") /\ ~Rejectable("bytes")) => ~BuildRejected

\* a 128-byte model and a 1024-byte argument of 512 characters were accepted
C20_Witness ==
    /\ call.op = "build_agent_command"
    /\ BuildModel = Some(Repeat("a", MODEL_MAX_LEN))
    /\ BuildArgs = <<Repeat("é", EXTRA_ARG_MAX_LEN \div 2)>>
    /\ ~BuildRejected

\* C21: on every backend a request whose agent is not one of claude, codex
\* and gemini is rejected with a validation error and no external process is
\* ever spawned for it.
C21_UnknownAgentRejectedBeforeSpawn ==
    (exec.pc # "idle" /\ exec.request.executor \notin AllowList)
    => /\ exec.spawned = <<>>
       /\ exec.pc = "done"
       /\ exec.ret = <<Err("InvalidExecutor")>>

\* C21 on the Local backend alone, where the allow-list is tested first.
C21_UnknownAgentRejectedLocally ==
    (exec.pc # "idle" /\ exec.request.executor \notin AllowList
       /\ exec.backend = "Local")
    => /\ exec.spawned = <<>>
       /\ exec.pc = "done"
       /\ exec.ret = <<Err("InvalidExecutor")>>

SynchronousBackends == {"Local", "Docker", "Remote", "Modal"}

\* C22: only the Container-Interactive backend returns Running; on the Local,
\* Container, Remote and Serverless backends, once the wait for the child has
\* given its exit status within the time limit, the result is Done with the
\* output if and only if the exit code is 0, and otherwise an Error result
\* carrying the exit code.
C22_RunningOnlyWhenDetached ==
    exec.pc = "done"
    => LET ret == exec.ret[1]
       IN /\ ret = Running => exec.backend = "DockerInteractive"
          /\ (exec.backend \in SynchronousBackends /\ exec.status # <<>>)
             => LET code == exec.status[1]
                IN /\ ret = Done(exec.output) <=> code = Some(0)
                   /\ code # Some(0)
                      => /\ ret.kind = "Error"
                         /\ IsSome(code) => ret.code = Unwrap(code)

\* a remote execution whose child exited with code 1 has returned
C22_Witness ==
    /\ exec.pc = "done"
    /\ exec.backend = "Remote"
    /\ exec.status = <<Some(1)>>
    /\ exec.output = MaxLines

\* C23: on the Local, Container, Remote and Serverless backends, when the
\* timer elapses before the read loop and the wait are through, the kill of
\* the child is attempted and then the Timeout error is returned, whether the
\* kill succeeded or not; no Done or Error result is produced.
C23_TimeoutKillsThenReportsTimeout ==
    /\ [](exec.pc = "timed_out" => /\ exec.backend \in SynchronousBackends
                                   /\ exec.kill = "none")
    /\ [][exec.pc = "timed_out"
            => /\ exec'.pc = "done"
               /\ exec'.kill \in {"ok", "failed"}
               /\ exec'.ret = <<Err("Timeout")>>]_vars

\* the kill after a timeout failed and the call has returned
C23_Witness ==
    /\ exec.pc = "done"
    /\ exec.backend = "Modal"
    /\ exec.kill = "failed"
    /\ exec.child = "running"

\* the number of runs the retry options of a check allow
RunsAllowed(check) ==
    IF check.type # "human_approval" /\ check.auto_retry = Some(TRUE)
    THEN 1 + Min(IF IsSome(check.max_retries) THEN Unwrap(check.max_retries) ELSE 2, 10)
    ELSE 1

\* C24: the retry loop ends after at most 1 + min(maxRetries, 10) runs of a
\* check with autoRetry (maxRetries defaulting to 2) and after exactly one run
\* of a check without; it stops at the first passing run and reports passed,
\* and on exhaustion returns the result of the last, failing run.
C24_RetryLoopTerminates ==
    call.op = "run_single_check"
    => LET check == call.arg.check
           passes_at == call.arg.passes_at
           passes_in_time == /\ check.type # "human_approval"
                             /\ passes_at \in 1..RunsAllowed(check)
       IN /\ call.ret.runs \in 1..RunsAllowed(check)
          /\ check.auto_retry # Some(TRUE) => call.ret.runs = 1
          /\ call.ret.passed <=> passes_in_time
          /\ call.ret.passed => call.ret.runs = passes_at
          /\ ~call.ret.passed => call.ret.runs = RunsAllowed(check)

\* a retry-enabled check failed twice and passed at the third run
C24_Witness ==
    /\ call.op = "run_single_check"
    /\ call.arg.check = Check("command", Some(TRUE), None)
    /\ call.arg.passes_at = 3
    /\ call.ret.passed
    /\ call.ret.runs = 3

TmuxOps == {"create_session", "session_exists", "capture_pane", "send_keys",
            "kill_session"}

\* C25: each of createSession, sessionExists, capturePane, sendKeys and
\* killSession, called when the tmux binary cannot be resolved, runs no tmux
\* process and reports the 'not installed' error.
C25_NotInstalledIsReported ==
    (call.op \in TmuxOps /\ ~call.arg.installed)
    => /\ call.ret.ret = NotInstalled
       /\ call.ret.runs = 0

\* C25 for the four functions other than session_exists.
C25_NotInstalledIsReportedButForExists ==
    (call.op \in TmuxOps \ {"session_exists"} /\ ~call.arg.installed)
    => /\ call.ret.ret = NotInstalled
       /\ call.ret.runs = 0

\* the window of the heuristic: the last 15 lines of the output
DetectWindow == LastN(call.arg.output, RECENT_LINES)

\* the weights, in hundredths, of the three signals read off the window
WindowSignals ==
    (IF \E i \in 1..Len(DetectWindow) : has_prompt_indicator(DetectWindow[i])
     THEN 30 ELSE 0)
    + (IF call.arg.agent = "claude"
          /\ \E i \in 1..Len(DetectWindow) : has_claude_pattern(DetectWindow[i])
       THEN 35 ELSE 0)
    + (IF Cardinality({i \in 1..Len(DetectWindow) : DetectWindow[i] = "choice"}) >= 2
       THEN 25 ELSE 0)

\* the trailing line of the window: its last line that is not blank
TrailingEndsWithQuestion ==
    \E i \in 1..Len(DetectWindow) :
       /\ ends_with_question(DetectWindow[i])
       /\ \A j \in (i + 1)..Len(DetectWindow) : DetectWindow[j] = "blank"

\* the number of the last five lines of the output that end with '?'
QuestionsInLastFive ==
    LET n == Len(call.arg.output)
    IN Cardinality({i \in 1..n : /\ i > n - QUESTION_LINES
                                 /\ ends_with_question(call.arg.output[i])})

\* C26 as stated: the confidence is min(1.0, sum of the weights of the signals
\* that fire), each signal at most once: 0.4 iff the trailing line of the
\* window ends with '?', 0.3 iff the window has a prompt indicator, 0.35 iff
\* the agent is claude and the window has agent-specific phrasing, 0.25 iff
\* two or more lines are numbered choices.
C26_ConfidenceFromTrailingLine ==
    call.op = "detect_input_waiting"
    => call.ret.confidence =
          Min(100, (IF TrailingEndsWithQuestion THEN 40 ELSE 0) + WindowSignals)

\* What the code computes instead: 0.4 for each of the last five lines of the
\* output, blank ones counted among the five, that ends with '?'.
C26_ConfidenceFromLastFiveLines ==
    call.op = "detect_input_waiting"
    => call.ret.confidence = Min(100, 40 * QuestionsInLastFive + WindowSignals)

\* C27: detect reports waiting for input exactly when the capped confidence is
\* at least 0.5; a window without a line ending in '?', a prompt indicator, an
\* agent phrase or two numbered choices is not waiting, and a window whose
\* trailing line ends with '?' and that has a prompt indicator is waiting.
C27_WaitingIffConfidenceAtLeastHalf ==
    call.op = "detect_input_waiting"
    => /\ call.ret.waiting_for_input <=> call.ret.confidence >= 50
       /\ call.ret.confidence <= 100
       /\ (/\ \A i \in 1..Len(DetectWindow) : ~ends_with_question(DetectWindow[i])
           /\ WindowSignals = 0)
          => ~call.ret.waiting_for_input
       /\ (/\ TrailingEndsWithQuestion
           /\ \E i \in 1..Len(DetectWindow) : has_prompt_indicator(DetectWindow[i]))
          => call.ret.waiting_for_input

\* The first part of C27 alone: waiting exactly from a confidence of 0.5.
C27_WaitingIffThreshold ==
    call.op = "detect_input_waiting"
    => /\ call.ret.waiting_for_input <=> call.ret.confidence >= 50
       /\ call.ret.confidence <= 100

----------------------------------------------------------------------------
(* SpecLock: the mutex of SessionManager.sessions. Every method of the     *)
(* manager is the sequence of its steps in source order: the external      *)
(* calls it makes (begun, then returned), the lock() of the table, each    *)
(* assignment made through the guard, and the drop of the guard. Up to two *)
(* sessions, the create and kill commands and the Monitor interleave step  *)
(* by step.                                                                *)

\* number of sessions created
MaxCreated == 1

LockTasks == {"create", "kill", "monitor"}

Step(do, arg) == [do |-> do, arg |-> arg]

\* self.sessions.lock().await.values().cloned().collect() (manager.rs:100-102)
list_sessions_steps == <<Step("lock", "list_sessions"), Step("read", "values"),
                         Step("unlock", "")>>

\* SessionManager::create_session from the tmux call on (manager.rs:76-96)
create_session_steps ==
    <<Step("call", "tmux new-session"), Step("return", "?"),
      Step("lock", "insert"), Step("write", "record"), Step("unlock", "")>>

\* Mutant: the table is locked before tmux is asked to kill the session.
kill_session_steps_locked_first ==
    <<Step("lock", "remove"), Step("call", "tmux kill-session"),
      Step("return", "?"), Step("write", "record"), Step("unlock", "")>>

\* SessionManager::kill_session (manager.rs:104-108)
kill_session_steps ==
    <<Step("call", "tmux kill-session"), Step("return", "?"),
      Step("lock", "remove"), Step("write", "record"), Step("unlock", "")>>

\* SessionManager::mark_completed (manager.rs:111-120)
mark_completed_steps ==
    <<Step("lock", "mark_completed"), Step("write", "status"),
      Step("write", "exit_code"), Step("unlock", "")>>

\* SessionManager::remove_session (manager.rs:123-125)
remove_session_steps ==
    <<Step("lock", "remove"), Step("write", "record"), Step("unlock", "")>>

\* SessionManager::mark_awaiting_input (manager.rs:128-135)
mark_awaiting_input_steps ==
    <<Step("lock", "mark_awaiting_input"), Step("write", "status"),
      Step("write", "detected_question"), Step("unlock", "")>>

\* SessionManager::update_staleness (manager.rs:138-164)
update_staleness_steps ==
    <<Step("lock", "update_staleness"), Step("write", "stale_poll_count"),
      Step("write", "last_output_hash"), Step("write", "status"),
      Step("write", "detected_question"), Step("unlock", "")>>

\* an external call whose failure is logged or defaulted
External(what) == <<Step("call", what), Step("return", "continue")>>

\* get_node_checks_and_label and checks::run_checks in a blocking task
run_node_checks_steps == External("project store") \o External("run_checks")

\* one session of a Monitor tick whose sentinel file exists (monitor.rs:100-172)
monitor_completed_steps ==
    list_sessions_steps \o External("fs metadata") \o External("fs read_to_string")
    \o External("tmux capture-pane") \o run_node_checks_steps
    \o mark_completed_steps \o External("window emit") \o External("fs remove_file")

\* one session whose tmux session is gone (monitor.rs:175-216)
monitor_dead_steps ==
    list_sessions_steps \o External("fs metadata") \o External("tmux has-session")
    \o run_node_checks_steps \o External("window emit") \o remove_session_steps

\* one session that is still running (monitor.rs:218-312)
monitor_alive_steps ==
    list_sessions_steps \o External("fs metadata") \o External("tmux has-session")
    \o <<Step("call", "tmux capture-pane"), Step("return", "?")>>
    \o update_staleness_steps \o External("window emit")
    \o <<Step("if", "should_detect")>> \o External("project store")
    \o mark_awaiting_input_steps \o External("notification")
    \o External("window emit")

LockPrograms(t) ==
    CASE t = "create" -> {"create_session"}
      [] t = "kill" -> {"kill_session"}
      [] t = "monitor" -> {"monitor_completed", "monitor_dead", "monitor_alive"}

ProgramSteps(program) ==
    CASE program = "create_session" -> create_session_steps
      [] program = "kill_session" -> kill_session_steps
      [] program = "monitor_completed" -> monitor_completed_steps
      [] program = "monitor_dead" -> monitor_dead_steps
      [] program = "monitor_alive" -> monitor_alive_steps

LockArg(id, exit_code, output_hash, question) ==
    [id |-> id, exit_code |-> exit_code, output_hash |-> output_hash,
     question |-> question]

IdleTask == [pc |-> 0, program |-> "none", arg |-> LockArg(0, 0, 0, None),
             calling |-> "none", ret |-> None]

\* the table after the whole method that locks it
locked_method(method, tbl, arg) ==
    CASE method = "list_sessions" -> tbl
      [] method = "insert" -> insert(tbl, arg.id, NewSession(arg.id, "claude"))
      [] method = "remove" -> remove_session(tbl, arg.id)
      [] method = "mark_completed" -> mark_completed(tbl, arg.id, arg.exit_code)
      [] method = "mark_awaiting_input" ->
           mark_awaiting_input(tbl, arg.id, arg.question)
      [] method = "update_staleness" ->
           update_staleness(tbl, arg.id, arg.output_hash).sessions

\* one assignment through the guard: the record inserted or removed, or one
\* field of the record get_mut found
write_through_guard(tbl, whole, id, field) ==
    IF field = "record"
    THEN whole
    ELSE IF id \in DOMAIN tbl
         THEN [tbl EXCEPT ![id] = [f \in DOMAIN @ |->
                                     IF f = field THEN whole[id][f] ELSE @[f]]]
         ELSE tbl

CurrentStep(t) == ProgramSteps(lock.task[t].program)[lock.task[t].pc]

\* the task after its current step: at the next one, or out of the method
Advance(task) ==
    IF task.pc < Len(ProgramSteps(task.program))
    THEN [task EXCEPT !.pc = @ + 1]
    ELSE IdleTask

AtStep(t, do) == lock.task[t].pc > 0 /\ CurrentStep(t).do = do

LockUnchanged == <<tmux, exitFile, agentPhase, pane, mon, ticks, create, kill,
                   emitted, polls, call, exec, procs>>

InitLock ==
    /\ sessions = EmptyTable
    /\ nextId = 0
    /\ tmux = {}
    /\ exitFile = [id \in SessionIds |-> "absent"]
    /\ agentPhase = [id \in SessionIds |-> "none"]
    /\ pane = [id \in SessionIds |-> <<>>]
    /\ mon = MonIdle
    /\ ticks = 0
    /\ create = [pc |-> "idle", id |-> 0, input |-> None, mux_result |-> "none"]
    /\ kill = [pc |-> "idle", id |-> 0]
    /\ emitted = [id \in SessionIds |-> <<>>]
    /\ polls = [id \in SessionIds |-> NoPoll]
    /\ exec = NoExec
    /\ procs = NoProcs
    /\ call = NoCall
    /\ lock = [holder |-> "none", whole |-> EmptyTable,
               task |-> [t \in LockTasks |-> IdleTask]]

\* a command arrives, or the Monitor's tick fires: the task enters a method
\* with its arguments (a fresh uuid for create, any id ever generated for
\* kill, what the Monitor will read of its session for a tick)
LockEnter ==
    \E t \in LockTasks :
    \E program \in LockPrograms(t), exit_code \in {0, 1},
       output_hash \in {hash_output(WorkWindow), hash_output(AskWindow)},
       question \in {None, Some("q")} :
      /\ lock.task[t].pc = 0
      /\ CASE t = "create" ->
                /\ nextId < MaxCreated
                /\ nextId' = nextId + 1
                /\ lock' = [lock EXCEPT !.task[t] =
                              [IdleTask EXCEPT !.pc = 1, !.program = program,
                                               !.arg = LockArg(nextId + 1, 0, 0, None)]]
           [] t = "kill" ->
                /\ \E id \in 1..nextId :
                     lock' = [lock EXCEPT !.task[t] =
                                [IdleTask EXCEPT !.pc = 1, !.program = program,
                                                 !.arg = LockArg(id, 0, 0, None)]]
                /\ UNCHANGED nextId
           [] t = "monitor" ->
                /\ lock' = [lock EXCEPT !.task[t] =
                              [IdleTask EXCEPT
                                 !.pc = 1, !.program = program,
                                 !.arg = LockArg(0, exit_code, output_hash, question)]]
                /\ UNCHANGED nextId
      /\ UNCHANGED sessions
      /\ UNCHANGED LockUnchanged

\* an external call begins
LockCall ==
    \E t \in LockTasks :
      /\ AtStep(t, "call")
      /\ lock' = [lock EXCEPT !.task[t] =
                    Advance([@ EXCEPT !.calling = CurrentStep(t).arg])]
      /\ UNCHANGED <<sessions, nextId>>
      /\ UNCHANGED LockUnchanged

\* the external call returns; after `?` or `continue` a failure ends the
\* method, and a guard the task holds is dropped
LockReturn ==
    \E t \in LockTasks, ok \in BOOLEAN :
      /\ AtStep(t, "return")
      /\ IF ok \/ CurrentStep(t).arg = "continue"
         THEN lock' = [lock EXCEPT !.task[t] = Advance([@ EXCEPT !.calling = "none"])]
         ELSE lock' = [lock EXCEPT !.task[t] = IdleTask,
                                   !.holder = IF @ = t THEN "none" ELSE @]
      /\ UNCHANGED <<sessions, nextId>>
      /\ UNCHANGED LockUnchanged

\* self.sessions.lock().await: granted when the mutex is free
LockAcquire ==
    \E t \in LockTasks :
      /\ AtStep(t, "lock")
      /\ lock.holder = "none"
      /\ LET task == lock.task[t]
             method == CurrentStep(t).arg
             ret == IF method = "update_staleness"
                    THEN update_staleness(sessions, task.arg.id,
                                          task.arg.output_hash).ret
                    ELSE None
         IN lock' = [lock EXCEPT
                       !.holder = t,
                       !.whole = locked_method(method, sessions, task.arg),
                       !.task[t] = Advance([task EXCEPT !.ret = ret])]
      /\ UNCHANGED <<sessions, nextId>>
      /\ UNCHANGED LockUnchanged

\* list_sessions under the guard: the tick takes one of the sessions the
\* Monitor polls, or ends when there is none
LockRead ==
    \E t \in LockTasks :
      /\ AtStep(t, "read")
      /\ lock.holder = t
      /\ LET polled == {id \in DOMAIN sessions :
                          /\ MonitoredStatus(sessions[id].status)
                          /\ sessions[id].stale_poll_count < MaxStale}
         IN IF polled = {}
            THEN lock' = [lock EXCEPT !.task[t] = IdleTask, !.holder = "none"]
            ELSE \E id \in polled :
                   lock' = [lock EXCEPT !.task[t] = Advance([@ EXCEPT !.arg.id = id])]
      /\ UNCHANGED <<sessions, nextId>>
      /\ UNCHANGED LockUnchanged

\* one assignment through the guard
LockWrite ==
    \E t \in LockTasks :
      /\ AtStep(t, "write")
      /\ lock.holder = t
      /\ sessions' = write_through_guard(sessions, lock.whole, lock.task[t].arg.id,
                                         CurrentStep(t).arg)
      /\ lock' = [lock EXCEPT !.task[t] = Advance(@)]
      /\ UNCHANGED nextId
      /\ UNCHANGED LockUnchanged

\* the guard goes out of scope
LockRelease ==
    \E t \in LockTasks :
      /\ AtStep(t, "unlock")
      /\ lock.holder = t
      /\ lock' = [lock EXCEPT !.task[t] = Advance(@), !.holder = "none"]
      /\ UNCHANGED <<sessions, nextId>>
      /\ UNCHANGED LockUnchanged

\* the awaiting-input branch of the tick (monitor.rs:254-262): taken when the
\* update says Running and stale for STALE_THRESHOLD polls, and the
\* detection, on what the pane showed, says waiting
LockBranch ==
    \E t \in LockTasks, waiting \in BOOLEAN :
      /\ AtStep(t, "if")
      /\ lock' = [lock EXCEPT !.task[t] =
                    IF /\ IsSome(@.ret)
                       /\ should_detect(Unwrap(@.ret))
                       /\ waiting
                    THEN Advance(@)
                    ELSE IdleTask]
      /\ UNCHANGED <<sessions, nextId>>
      /\ UNCHANGED LockUnchanged

NextLock ==
    \/ LockEnter
    \/ LockCall
    \/ LockReturn
    \/ LockAcquire
    \/ LockRead
    \/ LockWrite
    \/ LockRelease
    \/ LockBranch

SpecLock == InitLock /\ [][NextLock]_vars

\* C28: at every moment, no task that holds the lock of the session table
\* has an external call in progress, and whenever the lock is free the table
\* is what the methods that locked it, each applied as a whole, make of it:
\* no record is left partially updated.
C28_LockNeverHeldAcrossExternalCall ==
    /\ \A t \in LockTasks :
         lock.task[t].calling # "none" => lock.holder # t
    /\ lock.holder = "none" => sessions = lock.whole

\* a tmux call of one task is in progress while another task holds the lock
\* in the middle of the assignments of a method
C28_Witness ==
    /\ \E t \in LockTasks : lock.task[t].calling = "tmux kill-session"
    /\ lock.holder = "monitor"
    /\ sessions # lock.whole

----------------------------------------------------------------------------
(* SpecStop: execute_node and stop_execution (commands/execution.rs) over  *)
(* the active-process table and the RunningProcess handles (state.rs).     *)
(* Each execution has its child process, the Mutex<Option<Child>> of its   *)
(* handle and the task execute_node spawns to await the exit; one          *)
(* stop_execution command at a time runs against them. The table is keyed  *)
(* by the session id, which the caller supplies or execute_node generates. *)

\* number of executions started
MaxExecutions == 2
\* number of stop_execution calls
MaxStops == 2

ExecIds == 1..MaxExecutions

\* an execution that was not started: no process, no handle, no task, and
\* none of the execution:// events emitted for it yet
NoProcess == [key |-> <<"none", 0>>, process |-> "none", child |-> "absent",
              guard |-> "none", waiter |-> "none", events |-> <<>>]

\* the session id a caller supplies with its requests
GivenSessionId == <<"given", 0>>

\* input.session_id.unwrap_or_else(|| Uuid::new_v4().to_string())
\* (execution.rs:115-117): the n-th uuid generated is new
session_id_or_new(session_id, n) ==
    IF IsSome(session_id) THEN Unwrap(session_id) ELSE <<"uuid", n>>

\* RunningProcess::new(child): Mutex::new(Some(child)) (state.rs:55-59)
RunningProcess == [NoProcess EXCEPT !.process = "running", !.child = "Some",
                                    !.waiter = "spawned"]

StopIdle == [pc |-> "idle", id |-> 0, saw |-> "none", ret |-> "none"]

\* RunningProcess::wait up to its await (state.rs:69-72): the guard is taken
\* and kept, and the child moved out of the Option
wait_locks(p) == [p EXCEPT !.guard = "wait", !.child = "None", !.waiter = "waiting"]

\* child.wait() returned: wait() returns and its guard is dropped (state.rs:72-73)
wait_returns(p) == [p EXCEPT !.guard = "none", !.waiter = "remove"]

\* RunningProcess::kill with the guard (state.rs:62-67): the kill reaches the
\* child the Option still holds; Ok(()) when it holds none
kill_locked(p, ok) ==
    IF p.child = "Some"
    THEN [run |-> IF ok /\ p.process = "running"
                  THEN [p EXCEPT !.process = "killed"]
                  ELSE p,
          ret |-> IF ok THEN "Ok" ELSE "Err",
          delivered |-> ok]
    ELSE [run |-> p, ret |-> "Ok", delivered |-> FALSE]

InitStop ==
    /\ sessions = EmptyTable
    /\ nextId = 0
    /\ tmux = {}
    /\ exitFile = [id \in SessionIds |-> "absent"]
    /\ agentPhase = [id \in SessionIds |-> "none"]
    /\ pane = [id \in SessionIds |-> <<>>]
    /\ mon = MonIdle
    /\ ticks = 0
    /\ create = [pc |-> "idle", id |-> 0, input |-> None, mux_result |-> "none"]
    /\ kill = [pc |-> "idle", id |-> 0]
    /\ emitted = [id \in SessionIds |-> <<>>]
    /\ polls = [id \in SessionIds |-> NoPoll]
    /\ exec = NoExec
    /\ call = NoCall
    /\ lock = NoLock
    /\ procs = [pc |-> "ready", started |-> 0, stops |-> 0,
                table |-> [key \in {} |-> 0],
                run |-> [id \in ExecIds |-> NoProcess],
                stop |-> StopIdle, delivered |-> {}]

StopUnchanged == <<sessions, nextId, tmux, exitFile, agentPhase, pane, mon, ticks,
                   create, kill, emitted, polls, call, exec, lock>>

\* execute_node: the agent is spawned (or the command fails), the handle is
\* inserted under the table lock at the session id, and the task that awaits
\* the exit is spawned
ExecuteNode ==
    /\ procs.started < MaxExecutions
    /\ \E spawned \in BOOLEAN, session_id \in {None, Some(GivenSessionId)} :
         LET id == procs.started + 1
             key == session_id_or_new(session_id, id)
         IN procs' = IF spawned
                     THEN [procs EXCEPT !.started = id,
                                        !.table = insert(@, key, id),
                                        !.run[id] = [RunningProcess EXCEPT !.key = key]]
                     ELSE [procs EXCEPT !.started = id]
    /\ UNCHANGED StopUnchanged

\* the spawned task starts: running.wait() locks the handle's mutex
WaitTaskLocks ==
    /\ \E id \in ExecIds :
         /\ procs.run[id].waiter = "spawned"
         /\ procs.run[id].guard = "none"
         /\ procs' = [procs EXCEPT !.run[id] = wait_locks(@)]
    /\ UNCHANGED StopUnchanged

\* the agent process ends by itself
ProcessExits ==
    /\ \E id \in ExecIds :
         /\ procs.run[id].process = "running"
         /\ procs' = [procs EXCEPT !.run[id].process = "exited"]
    /\ UNCHANGED StopUnchanged

\* child.wait() completes once the process has ended
WaitTaskReturns ==
    /\ \E id \in ExecIds :
         /\ procs.run[id].waiter = "waiting"
         /\ procs.run[id].process \in {"exited", "killed"}
         /\ procs' = [procs EXCEPT !.run[id] = wait_returns(@)]
    /\ UNCHANGED StopUnchanged

\* state_processes.lock().await.remove(..), then execution://done (or error)
WaitTaskRemoves ==
    /\ \E id \in ExecIds, status_ok \in BOOLEAN :
         /\ procs.run[id].waiter = "remove"
         /\ procs' = [procs EXCEPT
                        !.table = remove_session(@, procs.run[id].key),
                        !.run[id].waiter = "done",
                        !.run[id].events =
                           Append(@, IF status_ok THEN "done" ELSE "wait error")]
    /\ UNCHANGED StopUnchanged

\* stop_execution up to running.kill(): the handle is looked up under the
\* table lock; Ok(()) at once when the table has none
StopExecution ==
    /\ procs.stop.pc = "idle"
    /\ procs.stops < MaxStops
    /\ \E e \in 1..procs.started :
         /\ procs.run[e].process # "none"
         /\ LET session_id == procs.run[e].key
            IN procs' = [procs EXCEPT
                           !.stops = @ + 1,
                           !.stop =
                             IF session_id \in DOMAIN procs.table
                             THEN [pc |-> "kill", id |-> procs.table[session_id],
                                   saw |-> procs.run[procs.table[session_id]].process,
                                   ret |-> "none"]
                             ELSE [StopIdle EXCEPT !.ret = "not running"]]
    /\ UNCHANGED StopUnchanged

\* running.kill() is granted the handle's mutex, kills what the Option holds,
\* and stop_execution emits "Execution stopped" or returns the error
StopKill ==
    /\ procs.stop.pc = "kill"
    /\ LET id == procs.stop.id
       IN /\ procs.run[id].guard = "none"
          /\ \E ok \in BOOLEAN :
               LET k == kill_locked(procs.run[id], ok)
               IN procs' = [procs EXCEPT
                              !.run[id] = IF k.ret = "Ok"
                                          THEN [k.run EXCEPT !.events =
                                                  Append(@, "Execution stopped")]
                                          ELSE k.run,
                              !.delivered = IF k.delivered THEN @ \cup {id} ELSE @,
                              !.stop.pc = "idle",
                              !.stop.ret = IF k.ret = "Ok" THEN "stopped"
                                           ELSE "failed to kill process"]
    /\ UNCHANGED StopUnchanged

NextStop ==
    \/ ExecuteNode
    \/ WaitTaskLocks
    \/ ProcessExits
    \/ WaitTaskReturns
    \/ WaitTaskRemoves
    \/ StopExecution
    \/ StopKill

SpecStop == InitStop /\ [][NextStop]_vars

\* C29: stopping a running one-shot execution kills its process under every
\* interleaving with the task that awaits the exit: no lock is held while
\* that task awaits the exit, stop_execution never waits with its kill while
\* the process is still running, and a stop that found the process running
\* and reports "Execution stopped" has delivered the kill.
C29_StopKillsRunningProcess ==
    /\ \A id \in ExecIds :
         procs.run[id].waiter = "waiting" => procs.run[id].guard = "none"
    /\ procs.stop.pc = "kill" /\ procs.run[procs.stop.id].process = "running"
         => procs.run[procs.stop.id].guard = "none"
    /\ procs.stop.ret = "stopped" /\ procs.stop.saw = "running"
         => procs.stop.id \in procs.delivered

----------------------------------------------------------------------------
(* SpecSentinel: the sentinel path of two sessions, as create_session has  *)
(* the wrapped command write it and as the Monitor polls it.               *)

\* number of hexadecimal digits of a generated uuid
UuidLen == 2

HexDigits == {"0", "7", "a", "f"}

RECURSIVE HexStrings(_)
HexStrings(n) ==
    IF n = 0 THEN {""}
    ELSE {h \o rest : h \in HexDigits, rest \in HexStrings(n - 1)}

\* format!("orchestra-{}", uuid::Uuid::new_v4()) (manager.rs:71)
new_session_id(uuid) == "orchestra-" \o uuid

\* Mutant: the Monitor looks at one path for every session.
monitor_exit_file_shared(session_id) == "/tmp/orchestra-sessions/session.exit"

\* let exit_file = format!("/tmp/orchestra-sessions/{}.exit", session.id)
\* (monitor.rs:111)
monitor_exit_file(session_id) == "/tmp/orchestra-sessions/" \o session_id \o ".exit"

\* the word after `>` in the commands the shell runs for the line: the file
\* the wrapped command writes its exit code to; <<>> when it redirects nothing
redirect_target(line) ==
    LET cmds == sh_parse(line).cmds
        at == {<<c, w>> \in (1..Len(cmds)) \X (1..Len(line)) :
                 /\ w < Len(cmds[c])
                 /\ cmds[c][w] = <<">">>}
    IN IF at = {} THEN <<>>
       ELSE LET cw == CHOOSE cw \in at : TRUE
            IN cmds[cw[1]][cw[2] + 1]

SentinelInputs ==
    [uuids : [1..2 -> HexStrings(UuidLen)],
     agent : {"Claude", "Codex"},
     prompt : {<<"a">>, <<"'", ";", " ", "a">>}]

InitSentinel ==
    /\ sessions = EmptyTable
    /\ nextId = 0
    /\ tmux = {}
    /\ exitFile = [id \in SessionIds |-> "absent"]
    /\ agentPhase = [id \in SessionIds |-> "none"]
    /\ pane = [id \in SessionIds |-> <<>>]
    /\ mon = MonIdle
    /\ ticks = 0
    /\ create = [pc |-> "idle", id |-> 0, input |-> None, mux_result |-> "none"]
    /\ kill = [pc |-> "idle", id |-> 0]
    /\ emitted = [id \in SessionIds |-> <<>>]
    /\ polls = [id \in SessionIds |-> NoPoll]
    /\ exec = NoExec
    /\ procs = NoProcs
    /\ lock = NoLock
    /\ \E input \in SentinelInputs :
         call = [NoCall EXCEPT !.op = "input", !.arg = input]

\* create_session, twice: a session id is generated and build_agent_command
\* builds the command line tmux hands to the shell
SentinelCreate ==
    /\ call.op = "input"
    /\ LET ids == [i \in 1..2 |-> new_session_id(call.arg.uuids[i])]
           lines == [i \in 1..2 |->
                       build_agent_command_line(ids[i], call.arg.agent, None, None,
                                                call.arg.prompt)]
       IN call' = [call EXCEPT
                     !.op = "create_session",
                     !.ret = [ids |-> ids,
                              written |-> [i \in 1..2 |->
                                             redirect_target(Unwrap(lines[i]))],
                              polled |-> <<>>]]
    /\ UNCHANGED <<sessions, nextId, tmux, exitFile, agentPhase, pane, mon, ticks,
                   create, kill, emitted, polls, exec, procs, lock>>

\* a Monitor tick over the two sessions: the path it tests for each
SentinelPoll ==
    /\ call.op = "create_session"
    /\ call' = [call EXCEPT
                  !.op = "monitor",
                  !.ret.polled = [i \in 1..2 |-> <<monitor_exit_file(call.ret.ids[i])>>]]
    /\ UNCHANGED <<sessions, nextId, tmux, exitFile, agentPhase, pane, mon, ticks,
                   create, kill, emitted, polls, exec, procs, lock>>

NextSentinel ==
    \/ SentinelCreate
    \/ SentinelPoll

SpecSentinel == InitSentinel /\ [][NextSentinel]_vars

\* C30: the sentinel path is a function of the session id alone: the path
\* the wrapped command of a session writes is the path the Monitor polls for
\* that session, and two sessions with different ids neither write nor poll
\* the same path.
C30_SentinelPathInjective ==
    call.op = "monitor"
    => /\ \A i \in 1..2 : call.ret.written[i] = call.ret.polled[i]
       /\ call.ret.ids[1] # call.ret.ids[2]
            => /\ call.ret.polled[1] # call.ret.polled[2]
               /\ call.ret.written[1] # call.ret.written[2]
               /\ call.ret.written[1] # call.ret.polled[2]

\* two sessions whose ids differ in their last digit only, both built and
\* polled, with a prompt that holds a quote and a separator
C30_Witness ==
    /\ call.op = "monitor"
    /\ call.arg.uuids = <<"a0", "a7">>
    /\ call.arg.prompt = <<"'", ";", " ", "a">>
    /\ call.ret.written[1] = <<"/tmp/orchestra-sessions/orchestra-a0.exit">>

----------------------------------------------------------------------------
(* The order of the completion path *)

\* C31: on the completion path the Monitor marks the session completed, then
\* emits the completion event, then deletes the sentinel file: the step that
\* emits the event is taken with the session Completed or Failed in the
\* table (or gone from it) and is followed by the deletion, and the sentinel
\* is deleted only right after the completion event of the same tick, the
\* last event emitted for the session.
C31_CompletionPathOrder ==
    /\ [](mon.pc = "emit"
            => \/ mon.cur \notin DOMAIN sessions
               \/ sessions[mon.cur].status \in TerminalStatus)
    /\ [][/\ mon.pc = "mark" /\ mon' # mon => mon'.pc = "emit" /\ emitted' = emitted
          /\ mon.pc = "emit" /\ mon' # mon
               => /\ mon'.pc = "delete"
                  /\ Len(emitted'[mon.cur]) = Len(emitted[mon.cur]) + 1
                  /\ exitFile' = exitFile
          /\ \A id \in SessionIds :
               exit_file_exists(exitFile[id]) /\ ~exit_file_exists(exitFile'[id])
               => /\ mon.pc = "delete" /\ mon.cur = id
                  /\ emitted[id] # <<>>
                  /\ LastEvent(emitted, id).kind = "completed"
                  /\ LastEvent(emitted, id).exit_code = mon.exit_code]_vars

\* C31 witness: the sentinel of a session has been deleted after its
\* completion event, with the session Completed in the table.
C31_Witness ==
    \E id \in DOMAIN sessions :
        /\ sessions[id].status = "Completed"
        /\ emitted[id] # <<>>
        /\ LastEvent(emitted, id).kind = "completed"
        /\ ~exit_file_exists(exitFile[id])
        /\ agentPhase[id] = "shell"
        /\ mon.pc = "next" /\ mon.cur = id

----------------------------------------------------------------------------
(* Terminal states under direct calls *)

\* C32: mark_awaiting_input, update_staleness and mark_completed, called
\* directly on a session that is Completed or Failed, leave its status as it
\* was.
C32_NoOperationLeavesTerminalState ==
    /\ call.op \in {"mark_awaiting_input", "update_staleness", "mark_completed"}
    /\ IsSome(call.before)
    /\ Unwrap(call.before).status \in TerminalStatus
    => sessions[call.id].status = Unwrap(call.before).status

----------------------------------------------------------------------------
(* Exit code and status of a record *)

\* C33: in every reachable state every record of the table has an exit code
\* exactly when it is Completed or Failed, and is Completed exactly when the
\* exit code recorded is 0.
C33_ExitCodeMatchesStatus ==
    \A id \in DOMAIN sessions :
        /\ IsSome(sessions[id].exit_code) <=> sessions[id].status \in TerminalStatus
        /\ sessions[id].status = "Completed" <=> sessions[id].exit_code = Some(0)

\* C33 witness: a session whose agent exited with code 1 after a poll that
\* found it running is Failed with that code, and the tick is over.
C33_Witness ==
    \E id \in DOMAIN sessions :
        /\ sessions[id].status = "Failed"
        /\ sessions[id].exit_code = Some(1)
        /\ IsSome(sessions[id].last_output_hash)
        /\ mon.pc = "sleep"

----------------------------------------------------------------------------
(* SpecWait: the running system from the moment the Monitor has found the  *)
(* session waiting for input: the pane showed the same question on three   *)
(* polls, the record is AwaitingInput and the event was emitted. From      *)
(* there the kill command, the agent, the tmux server and the Monitor go   *)
(* on as under Spec.                                                       *)

\* the record after mark_awaiting_input on a session polled stale
\* STALE_THRESHOLD times (manager.rs:128-135, monitor.rs:258-269)
AwaitingSession(id) ==
    [NewSession(id, "claude") EXCEPT
       !.status = "AwaitingInput",
       !.last_output_hash = Some(hash_output(AskWindow)),
       !.stale_poll_count = STALE_THRESHOLD,
       !.detected_question = detect_input_waiting(AskWindow, "claude").detected_question]

InitWait ==
    /\ sessions = [id \in SessionIds |-> AwaitingSession(id)]
    /\ nextId = Cardinality(SessionIds)
    /\ tmux = SessionIds
    /\ exitFile = [id \in SessionIds |-> "absent"]
    /\ agentPhase = [id \in SessionIds |-> "running"]
    /\ pane = [id \in SessionIds |-> AskWindow]
    /\ mon = MonIdle
    \* the polls up to the one that marked the record are not counted again,
    \* and one poll more than under Spec is followed
    /\ ticks = -1
    /\ create = [pc |-> "ok", id |-> nextId,
                 input |-> Some([agent |-> "claude", model |-> None,
                                 extra_args |-> None]),
                 mux_result |-> "ok"]
    /\ kill = [pc |-> "idle", id |-> 0]
    /\ \E notified \in BOOLEAN, ok \in BOOLEAN :
         emitted = [id \in SessionIds |->
                      <<[Notification EXCEPT !.delivered = notified],
                        [AwaitingInputEvent EXCEPT !.delivered = ok]>>]
    /\ polls = [id \in SessionIds |-> [last |-> AskWindow, run |-> 3]]
    /\ exec = NoExec
    /\ procs = NoProcs
    /\ lock = NoLock
    /\ call = NoCall

\* the session id of the model is in use: no further session is created
NextWait ==
    \/ KillTmux
    \/ KillRemove
    \/ AgentOpensExitFile
    \/ AgentWritesExitCode
    \/ PaneOutput
    \/ TmuxDies
    \/ MonitorTick
    \/ MonitorStep

SpecWait == InitWait /\ [][NextWait]_vars

\* C34: in every reachable state a record carries a detected question only
\* while it is AwaitingInput.
C34_QuestionOnlyWhileAwaiting ==
    \A id \in DOMAIN sessions :
        IsSome(sessions[id].detected_question) => sessions[id].status = "AwaitingInput"

----------------------------------------------------------------------------
(* SpecLive: the running system with its scheduling. The Monitor's         *)
(* interval keeps firing and every task that can take a step takes it;     *)
(* the commands arrive or not, and the agent, the pane and the tmux server *)
(* are free. MaxTicks counts the ticks taken while a tmux session can      *)
(* still change what the Monitor reads; once no tmux session is left the   *)
(* ticks go on uncounted.                                                  *)

\* poll_interval.tick() and the filtered list_sessions(), with no tmux
\* session left
MonitorTickUncounted ==
    /\ mon.pc = "sleep"
    /\ ticks = MaxTicks
    /\ tmux = {}
    /\ mon' = [MonIdle EXCEPT
                 !.pc = "next",
                 !.queue = {[id |-> id, agent |-> sessions[id].agent] :
                              id \in {x \in DOMAIN sessions :
                                        MonitoredStatus(sessions[x].status)}}]
    /\ UNCHANGED <<sessions, nextId, tmux, exitFile, agentPhase, pane, ticks, create,
                   kill, emitted, call, polls, exec, procs, lock>>

NextLive ==
    \/ Next
    \/ MonitorTickUncounted

SpecLive ==
    /\ Init
    /\ [][NextLive]_vars
    /\ WF_vars(MonitorTick \/ MonitorTickUncounted)
    /\ WF_vars(MonitorStep)
    /\ WF_vars(CreateTmux \/ CreateInsert)
    /\ WF_vars(KillRemove)

\* C35: a record whose tmux session has ceased to exist is eventually
\* removed from the table, whatever its status.
C35_RecordWithoutTmuxIsRemoved ==
    \A id \in SessionIds :
        (id \in DOMAIN sessions /\ id \notin tmux) ~> (id \notin DOMAIN sessions)

----------------------------------------------------------------------------
(* The death path and the existence query *)

\* C36: the Monitor enters the death path (the failure report and the
\* removal from the table) for a session only when its tmux session does
\* not exist; a query that could not be run is not taken for a dead session.
C36_DeathPathOnlyWhenSessionIsGone ==
    [][mon.pc = "exists" /\ mon'.pc = "dead_emit" => mon.cur \notin tmux]_vars

----------------------------------------------------------------------------
(* Awaiting-input events *)

\* the awaiting-input and awaiting-input-cleared events of a session, in the
\* order of their emission
AwaitingEvents(id) ==
    SelectSeq(emitted[id],
              LAMBDA e : e.kind \in {"awaiting_input", "awaiting_input_cleared"})

\* C37: for each session the awaiting-input and awaiting-input-cleared events
\* alternate, starting with awaiting-input: no awaiting-input event is
\* repeated without a cleared event in between, and a cleared event follows
\* an awaiting-input event that was not cleared yet.
C37_AwaitingEventsAlternate ==
    \A id \in SessionIds :
        \A i \in 1..Len(AwaitingEvents(id)) :
            AwaitingEvents(id)[i].kind =
                IF i % 2 = 1 THEN "awaiting_input" ELSE "awaiting_input_cleared"

\* C37 witness: the session waited, was polled unchanged while it waited,
\* then its output resumed: one awaiting-input event and one cleared event,
\* and the session is Running and was polled again since.
C37_Witness ==
    \E id \in DOMAIN sessions :
        /\ Len(AwaitingEvents(id)) = 2
        /\ AwaitingEvents(id)[2].kind = "awaiting_input_cleared"
        /\ sessions[id].status = "Running"
        /\ sessions[id].stale_poll_count = 1
        /\ ticks = 3
        /\ mon.pc = "sleep"

----------------------------------------------------------------------------
(* Terminal events of an execution *)

\* C38: each execution started by execute_node gets exactly one terminal
\* event (execution://done or execution://error): never more than one, and
\* one once the task that awaits its exit has finished.
C38_ExactlyOneTerminalEvent ==
    \A id \in ExecIds :
        /\ Len(procs.run[id].events) <= 1
        /\ procs.run[id].waiter = "done" => Len(procs.run[id].events) = 1

----------------------------------------------------------------------------
(* The active-process table *)

\* C39: while a process started by execute_node is running, the table maps
\* its session id to its handle, and an entry is removed only when the
\* process of the handle it holds has ended, whatever session ids the
\* execute_node calls are given.
C39_TableHoldsRunningProcess ==
    /\ [](\A id \in ExecIds :
            procs.run[id].process = "running"
            => /\ procs.run[id].key \in DOMAIN procs.table
               /\ procs.table[procs.run[id].key] = id)
    /\ [][\A key \in DOMAIN procs.table :
            key \notin DOMAIN procs'.table
            => procs.run[procs.table[key]].process \in {"exited", "killed"}]_vars

\* the same for executions whose session id no other execution uses
C39_TableHoldsRunningProcessOfOwnId ==
    /\ [](\A id \in ExecIds :
            /\ procs.run[id].process = "running"
            /\ \A other \in ExecIds \ {id} : procs.run[other].key # procs.run[id].key
            => /\ procs.run[id].key \in DOMAIN procs.table
               /\ procs.table[procs.run[id].key] = id)
    /\ [][\A key \in DOMAIN procs.table :
            /\ key \notin DOMAIN procs'.table
            /\ \A id, other \in ExecIds :
                 id # other /\ procs.run[id].process # "none"
                 => procs.run[other].key # procs.run[id].key
            => procs.run[procs.table[key]].process \in {"exited", "killed"}]_vars

----------------------------------------------------------------------------
(* SpecStream: the read loop of execute_local over the child's two pipes.   *)

\* the most lines the child writes in a run that is followed
MaxWritten == 3

OutputStreams == {"stdout", "stderr"}

\* the n-th line the child writes, on the stream it is written to
OutputLine(stream, n) == [stream |-> stream, n |-> n]

LinesOf(lines) == {lines[i] : i \in DOMAIN lines}

\* how many times a line occurs in a sequence of lines
Occurrences(lines, line) == Cardinality({i \in DOMAIN lines : lines[i] = line})

\* the lines of one stream, in their order
OfStream(lines, stream) == SelectSeq(lines, LAMBDA line : line.stream = stream)

\* Ok(Some(line)) => { output.push_str(&line); output.push('\n');
\*                     on_output(format!("{}\n", line)); }
read_line(e, line) ==
    [e EXCEPT !.output = Append(@, line), !.callbacks = Append(@, line)]

\* the child is spawned with both streams piped and the read loop is entered
InitStream ==
    /\ sessions = EmptyTable
    /\ nextId = 0
    /\ tmux = {}
    /\ exitFile = [id \in SessionIds |-> "absent"]
    /\ agentPhase = [id \in SessionIds |-> "none"]
    /\ pane = [id \in SessionIds |-> <<>>]
    /\ mon = MonIdle
    /\ ticks = 0
    /\ create = [pc |-> "idle", id |-> 0, input |-> None, mux_result |-> "none"]
    /\ kill = [pc |-> "idle", id |-> 0]
    /\ emitted = [id \in SessionIds |-> <<>>]
    /\ polls = [id \in SessionIds |-> NoPoll]
    /\ call = NoCall
    /\ exec = [pc |-> "reading", child |-> "running", exit_code |-> None,
               written |-> <<>>,
               pipe |-> [stream \in OutputStreams |-> <<>>],
               stderr_eof_seen |-> FALSE, read_error |-> FALSE,
               output |-> <<>>, callbacks |-> <<>>, ret |-> <<>>]
    /\ procs = NoProcs
    /\ lock = NoLock

\* the child writes a line to one of its streams
StreamChildWrites ==
    /\ exec.child = "running" /\ Len(exec.written) < MaxWritten
    /\ \E stream \in OutputStreams :
         LET line == OutputLine(stream, Len(exec.written) + 1)
         IN exec' = [exec EXCEPT !.written = Append(@, line),
                                 !.pipe[stream] = Append(@, line)]
    /\ ExecUnchanged

\* the child exits, which closes the write end of both pipes
StreamChildExits ==
    /\ exec.child = "running"
    /\ \E code \in {Some(0), Some(1), None} :
         exec' = [exec EXCEPT !.child = "exited", !.exit_code = code]
    /\ ExecUnchanged

\* select! takes the stdout branch with Ok(Some(line))
StreamReadStdout ==
    /\ exec.pc = "reading" /\ exec.pipe["stdout"] # <<>>
    /\ exec' = read_line([exec EXCEPT !.pipe["stdout"] = Tail(@)],
                         Head(exec.pipe["stdout"]))
    /\ ExecUnchanged

\* select! takes the stderr branch with Ok(Some(line))
StreamReadStderr ==
    /\ exec.pc = "reading" /\ exec.pipe["stderr"] # <<>>
    /\ exec' = read_line([exec EXCEPT !.pipe["stderr"] = Tail(@)],
                         Head(exec.pipe["stderr"]))
    /\ ExecUnchanged

\* select! takes the stdout branch with Ok(None): break
StreamStdoutEof ==
    /\ exec.pc = "reading" /\ exec.pipe["stdout"] = <<>> /\ exec.child = "exited"
    /\ exec' = [exec EXCEPT !.pc = "waiting"]
    /\ ExecUnchanged

\* select! takes the stdout branch with Err(e): warn and break
StreamStdoutError ==
    /\ exec.pc = "reading"
    /\ exec' = [exec EXCEPT !.pc = "waiting", !.read_error = TRUE]
    /\ ExecUnchanged

\* select! takes the stderr branch with Ok(None): the loop goes on
StreamStderrEof ==
    /\ exec.pc = "reading" /\ exec.pipe["stderr"] = <<>> /\ exec.child = "exited"
    /\ exec' = [exec EXCEPT !.stderr_eof_seen = TRUE]
    /\ ExecUnchanged

\* child.wait().await returns and the result is matched
StreamWait ==
    /\ exec.pc = "waiting" /\ exec.child = "exited"
    /\ \E wait_ok \in BOOLEAN :
         exec' = IF wait_ok
                 THEN Returned(exec, exit_result(exec.exit_code, exec.output))
                 ELSE Returned(exec, Err(WaitError("Local")))
    /\ ExecUnchanged

\* the timer of timeout(EXECUTION_TIMEOUT, ..) elapses first: the child is
\* killed and Timeout is returned
StreamTimeout ==
    /\ exec.pc \in {"reading", "waiting"}
    /\ \E kill_ok \in BOOLEAN :
         exec' = Returned([exec EXCEPT !.child = IF kill_ok THEN "exited" ELSE @],
                          timeout_result("Local", kill_ok))
    /\ ExecUnchanged

NextStream ==
    \/ StreamChildWrites
    \/ StreamChildExits
    \/ StreamReadStdout
    \/ StreamReadStderr
    \/ StreamStdoutEof
    \/ StreamStdoutError
    \/ StreamStderrEof
    \/ StreamWait
    \/ StreamTimeout

SpecStream == InitStream /\ [][NextStream]_vars

ReturnedDone == exec.pc = "done" /\ exec.ret[1].kind = "Done"

\* C40: when the Local backend returns Done, the output holds every line the
\* process wrote to stdout and to stderr, and the callback was invoked
\* exactly once for each of them.
C40_DoneOutputHasEveryLine ==
    ReturnedDone
    => \A line \in LinesOf(exec.written) :
         /\ line \in LinesOf(exec.ret[1].output)
         /\ Occurrences(exec.callbacks, line) = 1

\* Done is never returned without every written line when no read failed:
\* violated, by a line pending on stderr when end-of-stream on stdout is taken
C40_DoneOutputHasEveryLineUnlessReadFails ==
    (ReturnedDone /\ ~exec.read_error)
    => \A line \in LinesOf(OfStream(exec.written, "stderr")) :
         line \in LinesOf(exec.ret[1].output)

\* what does hold: without a failed read Done has every stdout line, the
\* lines of each stream are in the order written, and the callback was
\* invoked once for each line of the output, in the output's order
C40_DoneOutputHasStdout ==
    ReturnedDone
    => /\ ~exec.read_error
          => OfStream(exec.ret[1].output, "stdout") = OfStream(exec.written, "stdout")
       /\ \A stream \in OutputStreams :
            LET got == OfStream(exec.ret[1].output, stream)
            IN got = SubSeq(OfStream(exec.written, stream), 1, Len(got))
       /\ exec.callbacks = exec.ret[1].output

====
